---- MODULE Spec2Model ----
(***************************************************************************)
(* Model of bootstrap.js (AI Development Bootstrap Script).                *)
(*                                                                         *)
(* The persistent state is the file tree of the target repository, the     *)
(* Claude Desktop config file outside of it and the backup directories.    *)
(* One action per function that main() calls, in the order main() calls    *)
(* them; pure helpers (deepMerge, detectProjectType, writeFileSafe, ...)   *)
(* are operators.                                                          *)
(***************************************************************************)
EXTENDS Integers, Sequences, FiniteSets, TLC

VARIABLES
  fs,          \* project directory: path -> entry (absent / dir / file)
  ext,         \* the Claude Desktop config file (outside the project)
  backups,     \* copies under .ai-dev-backup-<ts>/ : set of [ts, path, data]
  extBackups,  \* copies of the external config under .ai-dev-backup-<ts>/
  backupDirs,  \* directories made under .ai-dev-backup-<ts>/ : set of [ts, path]
  clock,       \* wall clock, read by timestampId()
  pc,          \* position of main()
  force,       \* args.includes('--force')
  setupMcp,    \* args.includes('--setup-mcp')
  projectType, \* const projectType in main()
  pre,         \* project directory at the moment the command was invoked
  calls,       \* writeFileSafe calls made by the last step, with results
  runLog,      \* what the current run did so far (see StartRun)
  prevRun,     \* the last run that reached the end of main()
  mObj,        \* deepMerge: first argument
  mPatch,      \* deepMerge: second argument
  mOut,        \* deepMerge: returned value
  giCalls,     \* number of ensureGitignore calls made (gitignore harness)
  spawned,     \* commands run through runCommand by the current invocation
  args,        \* process.argv.slice(2) of the current invocation
  exitCode,    \* exit status of the last invocation ("none" while running)
  checks,      \* healthCheck: the checks array, as printed
  deleted,     \* the file the user deleted after init (or "none")
  cfgOpt,      \* setupMcpForClaudeDesktop: overwriteExistingServers
  cfgLog,      \* setupMcpForClaudeDesktop: what the last call did
  subject,     \* commit-msg hook: parts of the first line of the message
  hookExit,    \* commit-msg hook: exit status ("none" before it ran)
  workflowExit, \* commit-policy workflow: exit status of the step ("none" before)
  bkLog,       \* createBackup call: its argument, the failing copies, its return
  twin,        \* a second target directory and what an init run wrote there
  origin,      \* the directory as it was when the run that was terminated started
  adrFiles,    \* the ADR files under docs/adr: number, slug and content
  adrLog       \* scripts/create-adr.sh call: the files before it, its slug, its exit status

vars == <<fs, ext, backups, extBackups, backupDirs, clock, pc, force, setupMcp,
          projectType, pre, calls, runLog, prevRun, mObj, mPatch, mOut,
          giCalls, spawned, args, exitCode, checks,
          deleted, cfgOpt, cfgLog, subject, hookExit,
          workflowExit,
          bkLog,
          twin,
          origin,
          adrFiles,
          adrLog>>

(***************************************************************************)
(* Bounds                                                                  *)
(***************************************************************************)
MaxRuns == 2       \* init runs in one behaviour
MaxGiLen == 3      \* chunks in a user-written .gitignore (gitignore harness)
MaxGiCalls == 3    \* consecutive ensureGitignore calls (gitignore harness)
MaxCmds == 2       \* invocations of the command in one behaviour (command line)
MaxBackupPaths == 3  \* paths in the list handed to createBackup (backup harness)
MaxAdrCalls == 2   \* consecutive scripts/create-adr.sh calls (ADR harness)
MaxSetups == 2     \* consecutive setupMcpForClaudeDesktop calls (config harness)

(***************************************************************************)
(* Paths                                                                   *)
(***************************************************************************)
GitignorePath == ".gitignore"
SnapshotPath == ".mcp/context.xml"
ArchPath == "docs/ARCHITECTURE.md"

DocFiles == {"docs/ARCHITECTURE.md", "docs/CONVENTIONS.md",
             "docs/adr/ADR_TEMPLATE.md"}
hookPaths == <<".git/hooks/commit-msg", ".git/hooks/post-commit">>
HookFiles == {hookPaths[i] : i \in DOMAIN hookPaths}
scriptPaths == <<"scripts/commit-checkpoint.sh", "scripts/commit-main.sh",
                 "scripts/generate-context.sh", "scripts/create-adr.sh",
                 "scripts/serena-index.sh", "scripts/commit-checkpoint.bat",
                 "scripts/commit-main.bat", "scripts/generate-context.bat">>
ScriptFiles == {scriptPaths[i] : i \in DOMAIN scriptPaths}
mcpSnippetPaths == <<".mcp/claude_desktop_config.example.json",
                     ".mcp/cursor_mcp_config.example.json">>
OtherFiles == {".cursorrules", "repomix.config.json",
               ".github/workflows/commit-policy.yml"}
                 \cup {mcpSnippetPaths[i] : i \in DOMAIN mcpSnippetPaths}

\* the files init writes through writeFileSafe
ArtifactFiles == DocFiles \cup HookFiles \cup ScriptFiles \cup OtherFiles
\* files of the user that detectTechStack looks for
TechFiles == {"Dockerfile"}
Files == ArtifactFiles \cup {GitignorePath, SnapshotPath} \cup TechFiles

CodeDirs == {"src", "lib", "app", "backend", "packages", "services"}
createDirectoriesDirs == <<"docs/adr", ".mcp", "scripts", ".serena",
                           ".github/workflows">>
\* subdirectories of the code directories (what detectModules lists)
ModuleDirs == {"src/core"}
Dirs == CodeDirs \cup ModuleDirs \cup
          {".git", ".git/hooks", "docs", "docs/adr", ".mcp",
           "scripts", ".serena", ".github", ".github/workflows"}
Paths == Dirs \cup Files

\* path.dirname
dirname(p) ==
  CASE p \in {".git/hooks/commit-msg", ".git/hooks/post-commit"} -> ".git/hooks"
    [] p = ".git/hooks" -> ".git"
    [] p \in {"docs/ARCHITECTURE.md", "docs/CONVENTIONS.md", "docs/adr"} -> "docs"
    [] p = "docs/adr/ADR_TEMPLATE.md" -> "docs/adr"
    [] p \in ScriptFiles -> "scripts"
    [] p \in {".mcp/claude_desktop_config.example.json",
              ".mcp/cursor_mcp_config.example.json", ".mcp/context.xml"} -> ".mcp"
    [] p = ".github/workflows/commit-policy.yml" -> ".github/workflows"
    [] p = ".github/workflows" -> ".github"
    [] p = "src/core" -> "src"
    [] p = "~/.config/Claude/claude_desktop_config.json" -> "~/.config/Claude"
    [] OTHER -> "."

RECURSIVE AncestorsOrSelf(_)
AncestorsOrSelf(d) ==
  IF d = "." THEN {} ELSE {d} \cup AncestorsOrSelf(dirname(d))

(***************************************************************************)
(* File tree entries.  The content of a file is a sequence of chunks of    *)
(* text (a chunk is a line, or a run of whitespace).                       *)
(***************************************************************************)
Absent == [kind |-> "absent", data |-> <<>>]
DirEntry == [kind |-> "dir", data |-> <<>>]
File(content) == [kind |-> "file", data |-> content]

UserContent == <<"user text">>

\* fs.existsSync
existsSync(f, p) == f[p].kind # "absent"

\* ensureDir: fs.mkdirSync(dirPath, {recursive: true}) unless it exists
ensureDir(f, dirPath) ==
  IF dirPath \in {"", ".", "/"} THEN f
  ELSE IF existsSync(f, dirPath) THEN f
  ELSE [p \in DOMAIN f |->
          IF p \in AncestorsOrSelf(dirPath) /\ f[p].kind = "absent"
          THEN DirEntry ELSE f[p]]

\* safeRead / fs.readFileSync of a project file: '' when absent
safeRead(f, p) == IF f[p].kind = "file" THEN f[p].data ELSE <<>>

\* writeFileSafe: the file tree after the call and the returned object
writeFileSafeAlways(f, filePath, content, overwrite) ==
  [fs |-> [ensureDir(f, dirname(filePath)) EXCEPT ![filePath] = File(content)],
   wrote |-> TRUE, skipped |-> FALSE]

writeFileSafeNeverOverwrite(f, filePath, content, overwrite) ==
  LET exists == existsSync(f, filePath) IN
  IF exists
  THEN [fs |-> f, wrote |-> FALSE, skipped |-> TRUE]
  ELSE [fs |-> [ensureDir(f, dirname(filePath)) EXCEPT ![filePath] = File(content)],
        wrote |-> TRUE, skipped |-> FALSE]

writeFileSafe(f, filePath, content, overwrite) ==
  LET exists == existsSync(f, filePath) IN
  IF exists /\ ~overwrite
  THEN [fs |-> f, wrote |-> FALSE, skipped |-> TRUE]
  ELSE [fs |-> [ensureDir(f, dirname(filePath)) EXCEPT ![filePath] = File(content)],
        wrote |-> TRUE, skipped |-> FALSE]

(***************************************************************************)
(* JSON-like values, as JavaScript holds them.  t is the JavaScript type   *)
(* of the value; s holds the characters of a string (or the digits of a    *)
(* number), el the elements of an array, kv the own enumerable properties  *)
(* of an object (an array may carry properties too).                       *)
(***************************************************************************)
EmptyKV == [k \in {} |-> TRUE]
Undefined == [t |-> "undefined", s |-> <<>>, el |-> <<>>, kv |-> EmptyKV]
Null == [t |-> "null", s |-> <<>>, el |-> <<>>, kv |-> EmptyKV]
Num(n) == [t |-> "number", s |-> <<n>>, el |-> <<>>, kv |-> EmptyKV]
Str(chars) == [t |-> "string", s |-> chars, el |-> <<>>, kv |-> EmptyKV]
Arr(elems) == [t |-> "array", s |-> <<>>, el |-> elems, kv |-> EmptyKV]
Obj(props) == [t |-> "object", s |-> <<>>, el |-> <<>>, kv |-> props]

\* the property names "0", "1", ... of array elements and string characters
IndexKeys == <<"0", "1", "2", "3", "4">>
IndexOf(k) == CHOOSE i \in DOMAIN IndexKeys : IndexKeys[i] = k
IsIndexKey(k) == \E i \in DOMAIN IndexKeys : IndexKeys[i] = k

\* !v
Falsy(v) ==
  \/ v.t \in {"undefined", "null"}
  \/ v.t = "string" /\ v.s = <<>>
  \/ v.t = "number" /\ v.s = <<"0">>

\* v && typeof v === 'object' && !Array.isArray(v)
IsPlainObject(v) == v.t = "object"

\* { ...(obj || {}) } : own enumerable properties of obj; a string spreads
\* into its characters, numbers and null/undefined into nothing
SpreadObject(obj) ==
  CASE obj.t = "object" -> Obj(obj.kv)
    [] obj.t = "string" ->
         Obj([k \in {IndexKeys[i] : i \in 1..Len(obj.s)} |->
                Str(<<obj.s[IndexOf(k)]>>)])
    [] OTHER -> Obj(EmptyKV)

\* out[k] read
GetKey(out, k) ==
  IF out.t = "array" /\ IsIndexKey(k) /\ IndexOf(k) <= Len(out.el)
  THEN out.el[IndexOf(k)]
  ELSE IF k \in DOMAIN out.kv THEN out.kv[k] ELSE Undefined

\* Object.entries(patch): the keys
EntryKeys(patch) ==
  DOMAIN patch.kv \cup
    (IF patch.t = "array" THEN {IndexKeys[i] : i \in 1..Len(patch.el)} ELSE {})

\* deepMerge(obj, patch)
RECURSIVE deepMerge(_, _)

\* the value deepMerge stores at a key: cur is out[k], v the patch value
MergedValueConcat(cur, v) ==
  IF IsPlainObject(v) THEN deepMerge(cur, v)
  ELSE IF v.t = "array" /\ cur.t = "array" THEN Arr(cur.el \o v.el)
  ELSE v

MergedValue(cur, v) ==
  IF IsPlainObject(v) THEN deepMerge(cur, v) ELSE v

deepMerge(obj, patch) ==
  IF Falsy(patch) \/ patch.t \notin {"object", "array"} THEN obj
  ELSE
    LET out == IF obj.t = "array" THEN Arr(obj.el) ELSE SpreadObject(obj)
        val(k) == MergedValue(GetKey(out, k), GetKey(patch, k))
        keys == EntryKeys(patch)
        isEl(k) == out.t = "array" /\ IsIndexKey(k)
        n == Len(out.el)
        m == IF \E k \in keys : isEl(k)
             THEN CHOOSE i \in DOMAIN IndexKeys :
                    /\ isEl(IndexKeys[i]) /\ IndexKeys[i] \in keys
                    /\ \A j \in DOMAIN IndexKeys :
                         IndexKeys[j] \in keys => j <= i
             ELSE 0
    IN [t |-> out.t,
        s |-> <<>>,
        el |-> [i \in 1..(IF m > n THEN m ELSE n) |->
                  IF IndexKeys[i] \in keys /\ out.t = "array"
                  THEN val(IndexKeys[i]) ELSE out.el[i]],
        kv |-> [k \in DOMAIN out.kv \cup {x \in keys : ~isEl(x)} |->
                  IF k \in keys THEN val(k) ELSE out.kv[k]]]

\* JSON.parse(JSON.stringify(v)): properties of arrays and undefined members
\* are not serialised
RECURSIVE Serialised(_)
Serialised(v) ==
  CASE v.t = "array" ->
         Arr([i \in 1..Len(v.el) |->
                IF v.el[i].t = "undefined" THEN Null ELSE Serialised(v.el[i])])
    [] v.t = "object" ->
         Obj([k \in {x \in DOMAIN v.kv : v.kv[x].t # "undefined"} |->
                Serialised(v.kv[k])])
    [] OTHER -> v

(***************************************************************************)
(* Text of .gitignore: chunks are whole lines, "\n" and " ".               *)
(***************************************************************************)
Marker == ".mcp/context.xml"
Whitespace == {"\n", " "}

\* text.includes('.mcp/context.xml') for one chunk: the marker holds no
\* whitespace, so an occurrence never spans two chunks
ChunkIncludesMarker(c) == c \in {".mcp/context.xml", "old/.mcp/context.xml.bak"}

includesMarker(content) ==
  \E i \in DOMAIN content : ChunkIncludesMarker(content[i])

RECURSIVE trimEnd(_)
trimEnd(content) ==
  IF content # <<>> /\ content[Len(content)] \in Whitespace
  THEN trimEnd(SubSeq(content, 1, Len(content) - 1))
  ELSE content

\* a section that leaves out the secrets entry
mcpSectionWithoutEnv ==
  <<"\n", "# AI Development System - Generated Artifacts", "\n",
    ".mcp/context.xml", "\n",
    ".mcp/context_incremental.txt", "\n",
    ".mcp/post-commit.log", "\n",
    ".ai-dev-backup-*/", "\n">>

mcpSection ==
  <<"\n", "# AI Development System - Generated Artifacts", "\n",
    ".mcp/context.xml", "\n",
    ".mcp/context_incremental.txt", "\n",
    ".mcp/post-commit.log", "\n",
    ".ai-dev-backup-*/", "\n",
    "\n",
    "# Environment (secrets)", "\n",
    ".env", "\n">>

\* ensureGitignore: the file tree after the call, and whether it wrote
ensureGitignoreAlways(f) ==
  LET content == IF existsSync(f, GitignorePath) THEN safeRead(f, GitignorePath)
                 ELSE <<>>
  IN [fs |-> [f EXCEPT ![GitignorePath] =
                File(trimEnd(content) \o mcpSection \o <<"\n">>)],
      wrote |-> TRUE]

ensureGitignoreWrongMarker(f) ==
  LET content == IF existsSync(f, GitignorePath) THEN safeRead(f, GitignorePath)
                 ELSE <<>>
  IN IF \E i \in DOMAIN content : content[i] = ".mcp/context.json"
     THEN [fs |-> f, wrote |-> FALSE]
     ELSE [fs |-> [f EXCEPT ![GitignorePath] =
                     File(trimEnd(content) \o mcpSection \o <<"\n">>)],
           wrote |-> TRUE]

ensureGitignore(f) ==
  LET content == IF existsSync(f, GitignorePath) THEN safeRead(f, GitignorePath)
                 ELSE <<>>
  IN IF includesMarker(content)
     THEN [fs |-> f, wrote |-> FALSE]
     ELSE [fs |-> [f EXCEPT ![GitignorePath] =
                     File(trimEnd(content) \o mcpSection \o <<"\n">>)],
           wrote |-> TRUE]

(***************************************************************************)
(* Repository prober                                                       *)
(***************************************************************************)
detectProjectTypeNoArch(f) ==
  LET hasGit == existsSync(f, ".git")
      hasCode == \/ existsSync(f, "src") \/ existsSync(f, "lib")
                 \/ existsSync(f, "app") \/ existsSync(f, "backend")
                 \/ existsSync(f, "packages") \/ existsSync(f, "services")
      hasDocs == existsSync(f, "docs")
  IN IF hasGit /\ (hasCode \/ hasDocs) THEN "existing" ELSE "new"

detectProjectType(f) ==
  LET hasGit == existsSync(f, ".git")
      hasCode == \/ existsSync(f, "src") \/ existsSync(f, "lib")
                 \/ existsSync(f, "app") \/ existsSync(f, "backend")
                 \/ existsSync(f, "packages") \/ existsSync(f, "services")
      hasDocs == existsSync(f, "docs")
      hasArch == existsSync(f, "docs/ARCHITECTURE.md")
  IN IF hasGit /\ (hasCode \/ hasDocs) /\ ~hasArch THEN "existing" ELSE "new"

Has(f, p) == p \in DOMAIN f /\ existsSync(f, p)

\* detectModules: "- <base>/<name>/" for every subdirectory of a candidate
detectModulesCandidates == <<"src", "app", "lib", "backend", "packages", "services">>

RECURSIVE SetToSeq(_)
SetToSeq(S) ==
  IF S = {} THEN <<>>
  ELSE LET x == CHOOSE y \in S : TRUE IN <<x>> \o SetToSeq(S \ {x})

\* `- ${base}/${d.name}/`
ModuleLine(d) == CASE d = "src/core" -> "- src/core/" [] OTHER -> "- ?/"

RECURSIVE detectModulesFrom(_, _)
detectModulesFrom(f, i) ==
  IF i > Len(detectModulesCandidates) THEN <<>>
  ELSE LET base == detectModulesCandidates[i]
           items == IF ~existsSync(f, base) THEN <<>>
                    ELSE SetToSeq({ModuleLine(d) :
                           d \in {x \in ModuleDirs :
                                    dirname(x) = base /\ f[x].kind = "dir"}})
       IN items \o detectModulesFrom(f, i + 1)

detectModules(f) ==
  IF \E b \in CodeDirs : f[b].kind = "file"
  THEN <<"- Unable to detect modules">>      \* readdirSync throws: catch
  ELSE LET found == detectModulesFrom(f, 1) IN
       IF found = <<>> THEN <<"- No common module directories found">>
       ELSE found

\* detectTechStack: one line per marker file found
detectTechStack(f) ==
  LET line(cond, text) == IF cond THEN <<text>> ELSE <<>>
      detected ==
        line(Has(f, "package.json"), "- Node.js (package.json)")
        \o line(Has(f, "pyproject.toml"), "- Python (pyproject.toml)")
        \o line(Has(f, "requirements.txt"), "- Python (requirements.txt)")
        \o line(Has(f, "go.mod"), "- Go (go.mod)")
        \o line(Has(f, "Cargo.toml"), "- Rust (Cargo.toml)")
        \o line(Has(f, "pom.xml") \/ Has(f, "build.gradle"), "- Java (Maven/Gradle)")
        \o line(Has(f, "Gemfile"), "- Ruby (Gemfile)")
        \o line(Has(f, "composer.json"), "- PHP (composer.json)")
        \o line(Has(f, "global.json"), "- .NET")
        \o line(Has(f, "Dockerfile") \/ Has(f, "docker-compose.yml")
                  \/ Has(f, "compose.yaml"), "- Docker")
  IN IF detected # <<>> THEN detected ELSE <<"- Unable to detect tech stack">>

(***************************************************************************)
(* Artifact generators: the text of a generated file                       *)
(***************************************************************************)
\* an architecture text that is the plain template for every project type
architecturePlainAlways(type, f) ==
  <<"# ARCHITECTURE">>
  \o <<"## Modules">>
  \o <<"[List your main modules/components]">>
  \o <<"## Tech Stack">>
  \o <<"[Document your tech stack]">>

\* an architecture text that lists what was detected for every project type
architectureDetectsAlways(type, f) ==
  LET isDegraded == type = "existing" IN
  <<"# ARCHITECTURE">>
  \o (IF isDegraded THEN <<"> DEGRADED MODE TEMPLATE">> ELSE <<>>)
  \o <<"## Modules">>
  \o <<"[TODO: List your main modules/components]">> \o detectModules(f)
  \o <<"## Tech Stack">>
  \o <<"[TODO: Verify and document]">> \o detectTechStack(f)

architecture(type, f) ==
  LET isDegraded == type = "existing" IN
  <<"# ARCHITECTURE">>
  \o (IF isDegraded THEN <<"> DEGRADED MODE TEMPLATE">> ELSE <<>>)
  \o <<"## Modules">>
  \o (IF isDegraded
      THEN <<"[TODO: List your main modules/components]">> \o detectModules(f)
      ELSE <<"[List your main modules/components]">>)
  \o <<"## Tech Stack">>
  \o (IF isDegraded
      THEN <<"[TODO: Verify and document]">> \o detectTechStack(f)
      ELSE <<"[Document your tech stack]">>)

\* every other generated file has one fixed text
Generated(p) == <<"generated", p>>

Item(p) == [path |-> p, content |-> Generated(p)]

(***************************************************************************)
(* A sequence of writeFileSafe calls, with the log of the calls            *)
(***************************************************************************)
RECURSIVE WriteAll(_, _, _)
WriteAll(f, items, overwrite) ==
  IF items = <<>> THEN [fs |-> f, log |-> <<>>]
  ELSE LET it == Head(items)
           r == writeFileSafe(f, it.path, it.content, overwrite)
           rest == WriteAll(r.fs, Tail(items), overwrite)
       IN [fs |-> rest.fs,
           log |-> <<[filePath |-> it.path, content |-> it.content,
                      overwrite |-> overwrite,
                      before |-> f[it.path], after |-> r.fs[it.path],
                      parentAfter |-> IF dirname(it.path) = "." THEN "dir"
                                      ELSE r.fs[dirname(it.path)].kind,
                      wrote |-> r.wrote, skipped |-> r.skipped]>> \o rest.log]

(***************************************************************************)
(* createBackup(pathsToBackup): the copies made under the backup directory *)
(* `.ai-dev-backup-<ts>`.  failing is the set of paths whose copy fails    *)
(* (fs.cpSync and the copyFileSync fallback both throw).                   *)
(***************************************************************************)
\* a createBackup that gives up at the first copy that fails
createBackupStopsAtFailure(f, pathsToBackup, ts, failing) ==
  LET existing == {i \in DOMAIN pathsToBackup : existsSync(f, pathsToBackup[i])}
      copied == {i \in existing :
                   \A j \in existing : j <= i => pathsToBackup[j] \notin failing}
  IN [copies |-> {[ts |-> ts, path |-> pathsToBackup[i],
                   data |-> f[pathsToBackup[i]].data] : i \in copied},
      dirs |-> {[ts |-> ts, path |-> dirname(pathsToBackup[i])] : i \in existing},
      called |-> {pathsToBackup[i] : i \in DOMAIN pathsToBackup},
      failed |-> {pathsToBackup[i] : i \in existing \ copied},
      result |-> IF copied # {} THEN <<"backupDir", ts>> ELSE <<"null", 0>>]

createBackup(f, pathsToBackup, ts, failing) ==
  LET existing == {i \in DOMAIN pathsToBackup : existsSync(f, pathsToBackup[i])}
      copied == {i \in existing : pathsToBackup[i] \notin failing}
  IN [copies |-> {[ts |-> ts, path |-> pathsToBackup[i],
                   data |-> f[pathsToBackup[i]].data] : i \in copied},
      dirs |-> {[ts |-> ts, path |-> dirname(pathsToBackup[i])] : i \in existing},
      called |-> {pathsToBackup[i] : i \in DOMAIN pathsToBackup},
      failed |-> {pathsToBackup[i] : i \in existing \ copied},
      result |-> IF copied # {} THEN <<"backupDir", ts>> ELSE <<"null", 0>>]

\* fs.cpSync into the backup directory replaces an older copy of the path
AddCopies(bk, copies) ==
  {b \in bk : ~\E c \in copies : c.ts = b.ts /\ c.path = b.path} \cup copies

(***************************************************************************)
(* The installed commit-msg hook (.git/hooks/commit-msg, a /bin/sh script). *)
(* A text is a sequence of characters.                                      *)
(***************************************************************************)
StartsWith(str, w) == Len(str) >= Len(w) /\ SubSeq(str, 1, Len(w)) = w
Drop(str, n) == SubSeq(str, n + 1, Len(str))

\* head -n 1 "$MSG_FILE"
RECURSIVE FirstLine(_)
FirstLine(msg) ==
  IF msg = <<>> \/ Head(msg) = "\n" THEN <<>>
  ELSE <<Head(msg)>> \o FirstLine(Tail(msg))

\* tr -d '\r'
RECURSIVE DeleteCR(_)
DeleteCR(str) ==
  IF str = <<>> THEN <<>>
  ELSE (IF Head(str) = "\r" THEN <<>> ELSE <<Head(str)>>) \o DeleteCR(Tail(str))

\* [a-z0-9_-]
IsScopeCharAnyCase(c) ==
  c \in {"a", "b", "c", "d", "e", "f", "g", "h", "i", "j", "k", "l", "m", "n", "o", "p", "q", "r", "s", "t", "u", "v", "w", "x", "y", "z"} \cup {"A", "B", "C", "D", "E", "F", "G", "H", "I", "J", "K", "L", "M", "N", "O", "P", "Q", "R", "S", "T", "U", "V", "W", "X", "Y", "Z"} \cup {"0", "1", "2", "3", "4", "5", "6", "7", "8", "9"} \cup {"_", "-"}

IsScopeChar(c) ==
  c \in {"a", "b", "c", "d", "e", "f", "g", "h", "i", "j", "k", "l", "m", "n", "o", "p", "q", "r", "s", "t", "u", "v", "w", "x", "y", "z"} \cup {"0", "1", "2", "3", "4", "5", "6", "7", "8", "9"} \cup {"_", "-"}

\* `: .+` at the start of r
MatchColonText(r) == Len(r) >= 3 /\ r[1] = ":" /\ r[2] = " "

\* `(\([a-z0-9_-]+\))?: .+` at the start of r
MatchTailScopeRequired(r) ==
  /\ Len(r) >= 1 /\ r[1] = "("
  /\ \E n \in 1..Len(r) :
       /\ n + 2 <= Len(r)
       /\ \A i \in 2..(n + 1) : IsScopeChar(r[i])
       /\ r[n + 2] = ")"
       /\ MatchColonText(Drop(r, n + 2))

MatchTail(r) ==
  \/ MatchColonText(r)
  \/ /\ Len(r) >= 1 /\ r[1] = "("
     /\ \E n \in 1..Len(r) :
          /\ n + 2 <= Len(r)
          /\ \A i \in 2..(n + 1) : IsScopeChar(r[i])
          /\ r[n + 2] = ")"
          /\ MatchColonText(Drop(r, n + 2))

\* (feat|fix|refactor|docs|test|chore)
MainTypes ==
  {<<"f", "e", "a", "t">>,
   <<"f", "i", "x">>,
   <<"r", "e", "f", "a", "c", "t", "o", "r">>,
   <<"d", "o", "c", "s">>,
   <<"t", "e", "s", "t">>,
   <<"c", "h", "o", "r", "e">>}
CheckpointWord == <<"c", "h", "e", "c", "k", "p", "o", "i", "n", "t">>
MergeRevert == {<<"M", "e", "r", "g", "e", " ">>, <<"R", "e", "v", "e", "r", "t", " ">>}

\* exit status of the hook on the message file msg
commitMsgHook(msg) ==
  LET SUBJECT == DeleteCR(FirstLine(msg)) IN
  IF \E w \in MergeRevert : StartsWith(SUBJECT, w) THEN 0
  ELSE IF \E ty \in MainTypes :
            StartsWith(SUBJECT, ty) /\ MatchTail(Drop(SUBJECT, Len(ty))) THEN 0
  ELSE IF StartsWith(SUBJECT, CheckpointWord)
            /\ MatchTail(Drop(SUBJECT, Len(CheckpointWord))) THEN 0
  ELSE 1

(***************************************************************************)
(* The generated workflow .github/workflows/commit-policy.yml.  The text   *)
(* of a regular expression is a sequence of tokens; "\\" is one backslash   *)
(* character.  The workflow text is a JavaScript template literal, and the *)
(* step runs in bash.                                                      *)
(***************************************************************************)
\* the value of a template literal: \c stands for c
RECURSIVE Cooked(_)
Cooked(src) ==
  IF src = <<>> THEN <<>>
  ELSE IF Head(src) = "\\" /\ Len(src) >= 2
  THEN <<src[2]>> \o Cooked(Drop(src, 2))
  ELSE <<Head(src)>> \o Cooked(Tail(src))

\* the three patterns of the `[[ "$subject" =~ ... ]]` tests, as written in
\* bootstrap.js
workflowMergeSource ==
  <<"^", "(", "Merge", "\\", " ", "|", "Revert", "\\", " ", ")">>
workflowMainSource ==
  <<"^", "(", "feat|fix|refactor|docs|test|chore", ")", "(", "\\", "(",
    "[a-z0-9_-]+", "\\", ")", ")", "?", ":", "\\", " ", ".+">>
workflowCheckpointSource ==
  <<"^", "checkpoint", "(", "\\", "(", "[a-z0-9_-]+", "\\", ")", ")", "?", ":",
    "\\", " ", ".+">>

\* bash reads the pattern of [[ =~ ]] as one word: a blank that is neither
\* escaped nor inside parentheses ends it ("syntax error in conditional
\* expression")
RECURSIVE BashPatternParsesFrom(_, _, _)
BashPatternParsesFrom(re, i, depth) ==
  IF i > Len(re) THEN TRUE
  ELSE IF re[i] = "\\" THEN BashPatternParsesFrom(re, i + 2, depth)
  ELSE IF re[i] = "(" THEN BashPatternParsesFrom(re, i + 1, depth + 1)
  ELSE IF re[i] = ")" THEN BashPatternParsesFrom(re, i + 1, depth - 1)
  ELSE IF re[i] = " " /\ depth = 0 THEN FALSE
  ELSE BashPatternParsesFrom(re, i + 1, depth)
BashPatternParses(re) == BashPatternParsesFrom(re, 1, 0)

\* the pattern holds \( : the parentheses of the scope are literal
LiteralParens(re) ==
  \E i \in 1..(Len(re) - 1) : re[i] = "\\" /\ re[i + 1] = "("

\* `(([a-z0-9_-]+))?: .+` at the start of r (a group, no literal parentheses)
MatchTailGroupOnly(r) ==
  \/ MatchColonText(r)
  \/ \E n \in 1..Len(r) :
       /\ \A i \in 1..n : IsScopeChar(r[i])
       /\ MatchColonText(Drop(r, n))

\* [[ "$subject" =~ re ]] for the patterns word + scope + `: .+`
MatchesPolicyPattern(sub, re, words) ==
  \E w \in words :
    /\ StartsWith(sub, w)
    /\ IF LiteralParens(re) THEN MatchTail(Drop(sub, Len(w)))
       ELSE MatchTailGroupOnly(Drop(sub, Len(w)))

\* exit status of the step "Validate commit messages" when the range holds
\* one commit with the subject sub.  bash parses the whole while loop before
\* it runs it: a pattern that does not parse ends the script with status 2
commitPolicyWorkflow(sub) ==
  LET merge == Cooked(workflowMergeSource)
      main == Cooked(workflowMainSource)
      checkpoint == Cooked(workflowCheckpointSource)
  IN IF ~(BashPatternParses(merge) /\ BashPatternParses(main)
            /\ BashPatternParses(checkpoint))
     THEN 2
     ELSE IF \E w \in MergeRevert : StartsWith(sub, w) THEN 0
     ELSE IF MatchesPolicyPattern(sub, main, MainTypes) THEN 0
     ELSE IF MatchesPolicyPattern(sub, checkpoint, {CheckpointWord}) THEN 0
     ELSE 1

(***************************************************************************)
(* Claude Desktop config (outside the project directory).  The text of    *)
(* the file is blank, not JSON, or the JSON text of a value.               *)
(***************************************************************************)
CfgPath == "~/.config/Claude/claude_desktop_config.json"   \* linux branch
CfgDir == dirname(CfgPath)

BlankText == <<[raw |-> "blank", val |-> Undefined]>>
BadText == <<[raw |-> "bad", val |-> Undefined]>>
\* JSON.stringify(v, null, 2) + '\n'
JsonText(v) == <<[raw |-> "json", val |-> Serialised(v)]>>

mcpPatch ==
  Obj("mcpServers" :>
    Obj(("repomix" :>
           Obj(("command" :> Str(<<"npx">>)) @@
               ("args" :> Arr(<<Str(<<"-y">>), Str(<<"repomix">>), Str(<<"--mcp">>)>>))))
        @@
        ("serena" :>
           Obj(("command" :> Str(<<"uvx">>)) @@
               ("args" :> Arr(<<Str(<<"--from">>),
                                Str(<<"git+https://github.com/oraios/serena.git">>),
                                Str(<<"serena">>), Str(<<"start-mcp-server">>)>>))))))

\* the patch after `delete patch.mcpServers[k]` for the servers that exist
PatchForNoDelete(existing, overwriteExistingServers) == mcpPatch

PatchFor(existing, overwriteExistingServers) ==
  LET servers == GetKey(existing, "mcpServers")
      all == mcpPatch.kv["mcpServers"].kv
  IN IF ~overwriteExistingServers /\ ~Falsy(existing) /\ ~Falsy(servers)
     THEN Obj("mcpServers" :>
                Obj([k \in {x \in DOMAIN all : Falsy(GetKey(servers, x))} |-> all[k]]))
     ELSE mcpPatch

\* setupMcpForClaudeDesktop: the config file tree and the backups made.
\* failing1 / failing2: the paths whose copy fails in the two createBackup calls
setupMcpForClaudeDesktopBackupAfterWrite(e, overwriteExistingServers, ts, failing1, failing2) ==
  LET e1 == ensureDir(e, CfgDir)
      existingRaw == safeRead(e1, CfgPath)
      nonBlank == existingRaw # <<>> /\ existingRaw[1].raw # "blank"
      parseFails == nonBlank /\ existingRaw[1].raw = "bad"
      existing == IF nonBlank /\ ~parseFails THEN existingRaw[1].val
                  ELSE Obj(EmptyKV)
      patch == PatchFor(existing, overwriteExistingServers)
      merged == deepMerge(existing, patch)
      w == writeFileSafe(e1, CfgPath, JsonText(merged), TRUE)
      b2 == IF existsSync(e1, CfgPath) THEN createBackup(w.fs, <<CfgPath>>, ts, failing2)
            ELSE createBackup(e1, <<>>, ts, {})
  IN [ext |-> w.fs, copies |-> b2.copies,
      dirs |-> b2.dirs, wrote |-> w.wrote, skipped |-> w.skipped,
      parseFails |-> parseFails, existing |-> existing, patch |-> patch,
      merged |-> merged]

setupMcpForClaudeDesktopKeepBad(e, overwriteExistingServers, ts, failing1, failing2) ==
  LET e1 == ensureDir(e, CfgDir)
      existingRaw == safeRead(e1, CfgPath)
      nonBlank == existingRaw # <<>> /\ existingRaw[1].raw # "blank"
      parseFails == nonBlank /\ existingRaw[1].raw = "bad"
      existing == IF nonBlank /\ ~parseFails THEN existingRaw[1].val
                  ELSE Obj(EmptyKV)
      b1 == IF parseFails THEN createBackup(e1, <<CfgPath>>, ts, failing1)
            ELSE createBackup(e1, <<>>, ts, {})
      patch == PatchFor(existing, overwriteExistingServers)
      b2 == IF existsSync(e1, CfgPath) THEN createBackup(e1, <<CfgPath>>, ts, failing2)
            ELSE createBackup(e1, <<>>, ts, {})
      merged == deepMerge(existing, patch)
      w == IF parseFails THEN [fs |-> e1, wrote |-> FALSE, skipped |-> TRUE]
           ELSE writeFileSafe(e1, CfgPath, JsonText(merged), TRUE)
  IN [ext |-> w.fs, copies |-> AddCopies(b1.copies, b2.copies),
      dirs |-> b1.dirs \cup b2.dirs, wrote |-> w.wrote, skipped |-> w.skipped,
      parseFails |-> parseFails, existing |-> existing, patch |-> patch,
      merged |-> merged]

setupMcpForClaudeDesktop(e, overwriteExistingServers, ts, failing1, failing2) ==
  LET e1 == ensureDir(e, CfgDir)
      existingRaw == safeRead(e1, CfgPath)
      nonBlank == existingRaw # <<>> /\ existingRaw[1].raw # "blank"
      parseFails == nonBlank /\ existingRaw[1].raw = "bad"
      existing == IF nonBlank /\ ~parseFails THEN existingRaw[1].val
                  ELSE Obj(EmptyKV)
      b1 == IF parseFails THEN createBackup(e1, <<CfgPath>>, ts, failing1)
            ELSE createBackup(e1, <<>>, ts, {})
      patch == PatchFor(existing, overwriteExistingServers)
      b2 == IF existsSync(e1, CfgPath) THEN createBackup(e1, <<CfgPath>>, ts, failing2)
            ELSE createBackup(e1, <<>>, ts, {})
      merged == deepMerge(existing, patch)
      w == writeFileSafe(e1, CfgPath, JsonText(merged), TRUE)
  IN [ext |-> w.fs, copies |-> AddCopies(b1.copies, b2.copies),
      dirs |-> b1.dirs \cup b2.dirs, wrote |-> w.wrote, skipped |-> w.skipped,
      parseFails |-> parseFails, existing |-> existing, patch |-> patch,
      merged |-> merged]

(***************************************************************************)
(* main(): one init run, step by step                                      *)
(***************************************************************************)
\* the variables of the command line, config and hook harnesses, at rest
NoArgs == <<>>
NoChecks == <<>>
NoCfgLog == [called |-> FALSE, before |-> <<>>, existed |-> FALSE,
             parseFails |-> FALSE, existing |-> Undefined, patch |-> Undefined,
             merged |-> Undefined, copies |-> {}, failing1 |-> {},
             failing2 |-> {}, wrote |-> FALSE]
NoSubject == [head |-> <<>>, scope |-> <<>>, sep |-> <<>>, text |-> <<>>,
              eol |-> <<>>]

NoBkLog == [called |-> FALSE, paths |-> <<>>, failing |-> {},
            result |-> <<"null", 0>>]

NoTwin == [done |-> FALSE, fs |-> [p \in Paths |-> Absent], type |-> "unset",
           written |-> [p \in ArtifactFiles |-> <<>>]]

NoOrigin == [valid |-> FALSE, fs |-> [p \in Paths |-> Absent], at |-> "idle",
             force |-> FALSE, run |-> 0]

NoAdrLog == [called |-> FALSE, before |-> {}, slug |-> "", created |-> FALSE,
             file |-> 0, exit |-> 0]

RunLog0 == [overwritten |-> {}, unbacked |-> {}, backupCalled |-> {},
            copyFailed |-> {}, allSkipped |-> TRUE, nCalls |-> 0,
            giWrote |-> FALSE, extWrote |-> FALSE]
NoRun == [valid |-> FALSE, end |-> [p \in Paths |-> Absent],
          backups |-> {}, extBackups |-> {}, backupDirs |-> {}]

\* the run log after the writeFileSafe calls of log; called: the paths
\* createBackup was called with before these writes
Logged(rl, log, called) ==
  LET over == {log[i].filePath : i \in {j \in DOMAIN log :
                 log[j].wrote /\ log[j].before.kind # "absent"}}
  IN [rl EXCEPT !.overwritten = @ \cup over,
                !.unbacked = @ \cup (over \ called),
                !.backupCalled = @ \cup called,
                !.allSkipped = @ /\ \A i \in DOMAIN log : log[i].skipped,
                !.nCalls = @ + Len(log)]

mergeVars == <<mObj, mPatch, mOut>>
callVars == <<bkLog, twin, origin, adrFiles, adrLog>>
cliVars == <<args, exitCode, checks, deleted>>
cfgVars == <<cfgOpt, cfgLog>>
hookVars == <<subject, hookExit, workflowExit>>
auxVars == <<cliVars, cfgVars, hookVars>>
backupVars == <<backups, extBackups, backupDirs>>
argVars == <<force, setupMcp>>

\* node bootstrap.js init [--force] [--setup-mcp]
StartRun ==
  /\ pc \in {"idle", "done", "crashed", "killed"}
  /\ clock < MaxRuns
  /\ clock' = clock + 1
  /\ force' \in BOOLEAN
  /\ setupMcp' \in BOOLEAN
  /\ pre' = fs
  /\ prevRun' = IF pc = "done" /\ ~force
                THEN [valid |-> TRUE, end |-> fs, backups |-> backups,
                      extBackups |-> extBackups, backupDirs |-> backupDirs]
                ELSE NoRun
  /\ runLog' = RunLog0
  /\ calls' = <<>>
  /\ projectType' = "unset"
  /\ pc' = "ensureGitRepo"
  /\ spawned' = {}
  /\ cfgLog' = NoCfgLog
  /\ UNCHANGED <<fs, ext, backupVars, mergeVars, callVars, giCalls, cliVars, cfgOpt,
                 hookVars>>

\* ensureGitRepo: `git init` when there is no .git, then ensureDir('.git/hooks')
EnsureGitRepo ==
  /\ pc = "ensureGitRepo"
  /\ \/ /\ fs' = ensureDir(IF existsSync(fs, ".git") THEN fs
                           ELSE [fs EXCEPT ![".git"] = DirEntry], ".git/hooks")
        /\ pc' = "warnDirtyWorkingTree"
     \/ \* runCommand('git init') throws (not silent): the run ends
        /\ ~existsSync(fs, ".git")
        /\ fs' = fs
        /\ pc' = "crashed"
  /\ spawned' = spawned \cup (IF existsSync(fs, ".git") THEN {} ELSE {"git init"})
  /\ calls' = <<>>
  /\ UNCHANGED <<ext, backupVars, clock, argVars, projectType, pre, runLog,
                 prevRun, mergeVars, callVars, giCalls, auxVars>>

\* warnDirtyWorkingTree: `git status --porcelain`, silent; only logs
WarnDirtyWorkingTree ==
  /\ pc = "warnDirtyWorkingTree"
  /\ pc' = "detectProjectType"
  /\ spawned' = spawned \cup {"git status --porcelain"}
  /\ UNCHANGED <<fs, ext, backupVars, clock, argVars, projectType, pre, calls,
                 runLog, prevRun, mergeVars, callVars, giCalls, auxVars>>

\* const projectType = detectProjectType()
DetectProjectType ==
  /\ pc = "detectProjectType"
  /\ projectType' = detectProjectType(fs)
  /\ pc' = "createDirectories"
  /\ UNCHANGED <<fs, ext, backupVars, clock, argVars, pre, calls, runLog,
                 prevRun, mergeVars, callVars, giCalls, spawned, auxVars>>

RECURSIVE EnsureDirs(_, _)
EnsureDirs(f, ds) ==
  IF ds = <<>> THEN f ELSE EnsureDirs(ensureDir(f, Head(ds)), Tail(ds))

CreateDirectories ==
  /\ pc = "createDirectories"
  /\ fs' = EnsureDirs(fs, createDirectoriesDirs)
  /\ pc' = "ensureGitignore"
  /\ UNCHANGED <<ext, backupVars, clock, argVars, projectType, pre, calls,
                 runLog, prevRun, mergeVars, callVars, giCalls, spawned, auxVars>>

EnsureGitignore ==
  /\ pc = "ensureGitignore"
  /\ IF fs[GitignorePath].kind = "dir"
     THEN \* fs.readFileSync throws EISDIR, nothing catches it
          /\ pc' = "crashed"
          /\ UNCHANGED <<fs, runLog>>
     ELSE LET r == ensureGitignore(fs) IN
            /\ fs' = r.fs
            /\ runLog' = [runLog EXCEPT !.giWrote = r.wrote]
            /\ pc' = "createDocs"
  /\ UNCHANGED <<ext, backupVars, clock, argVars, projectType, pre, calls,
                 prevRun, mergeVars, callVars, giCalls, spawned, auxVars>>

\* the writeFileSafe calls of a step and their record in the run log
Writes(items, overwrite) ==
  LET r == WriteAll(fs, items, overwrite) IN
    /\ fs' = r.fs
    /\ calls' = r.log
    /\ runLog' = Logged(runLog, r.log, {})

createDocsItems ==
  <<[path |-> "docs/ARCHITECTURE.md", content |-> architecture(projectType, fs)],
    Item("docs/CONVENTIONS.md"), Item("docs/adr/ADR_TEMPLATE.md")>>

CreateDocsForced ==
  /\ pc = "createDocs"
  /\ Writes(createDocsItems, force)
  /\ pc' = "createCursorRules"
  /\ UNCHANGED <<ext, backupVars, clock, argVars, projectType, pre, prevRun,
                 mergeVars, callVars, giCalls, spawned, auxVars>>

CreateDocs ==
  /\ pc = "createDocs"
  /\ Writes(createDocsItems, FALSE)
  /\ pc' = "createCursorRules"
  /\ UNCHANGED <<ext, backupVars, clock, argVars, projectType, pre, prevRun,
                 mergeVars, callVars, giCalls, spawned, auxVars>>

CreateCursorRules ==
  /\ pc = "createCursorRules"
  /\ Writes(<<Item(".cursorrules")>>, FALSE)
  /\ pc' = "createRepomixConfig"
  /\ UNCHANGED <<ext, backupVars, clock, argVars, projectType, pre, prevRun,
                 mergeVars, callVars, giCalls, spawned, auxVars>>

CreateRepomixConfig ==
  /\ pc = "createRepomixConfig"
  /\ Writes(<<Item("repomix.config.json")>>, FALSE)
  /\ pc' = "createMcpSnippets"
  /\ UNCHANGED <<ext, backupVars, clock, argVars, projectType, pre, prevRun,
                 mergeVars, callVars, giCalls, spawned, auxVars>>

CreateMcpSnippets ==
  /\ pc = "createMcpSnippets"
  /\ Writes([i \in DOMAIN mcpSnippetPaths |-> Item(mcpSnippetPaths[i])], FALSE)
  /\ pc' = "createGitHooks"
  /\ UNCHANGED <<ext, backupVars, clock, argVars, projectType, pre, prevRun,
                 mergeVars, callVars, giCalls, spawned, auxVars>>

\* a createGitHooks that lets a failed backup copy end the run
CreateGitHooksAbortsOnFailedBackup ==
  /\ pc = "createGitHooks"
  /\ \E failing \in SUBSET {p \in HookFiles : force /\ existsSync(fs, p)} :
       LET overwrite == force
           b == IF overwrite THEN createBackup(fs, hookPaths, clock, failing)
                ELSE createBackup(fs, <<>>, clock, {})
           r == IF b.failed # {} THEN [fs |-> fs, log |-> <<>>]
                ELSE WriteAll(fs, [i \in DOMAIN hookPaths |-> Item(hookPaths[i])],
                              overwrite)
       IN /\ backups' = AddCopies(backups, b.copies)
          /\ backupDirs' = backupDirs \cup b.dirs
          /\ fs' = r.fs
          /\ calls' = r.log
          /\ runLog' = [Logged(runLog, r.log, b.called)
                          EXCEPT !.copyFailed = @ \cup b.failed]
          /\ pc' = IF b.failed # {} THEN "crashed" ELSE "createScripts"
  /\ UNCHANGED <<ext, extBackups, clock, argVars, projectType, pre, prevRun,
                 mergeVars, callVars, giCalls, spawned, auxVars>>

\* createGitHooks({overwrite: force}): backup when overwriting, then the writes
\* (chmodSafe: file modes are not part of the file tree modelled here)
CreateGitHooks ==
  /\ pc = "createGitHooks"
  /\ \E failing \in SUBSET {p \in HookFiles : force /\ existsSync(fs, p)} :
       LET overwrite == force
           b == IF overwrite THEN createBackup(fs, hookPaths, clock, failing)
                ELSE createBackup(fs, <<>>, clock, {})
           r == WriteAll(fs, [i \in DOMAIN hookPaths |-> Item(hookPaths[i])],
                         overwrite)
       IN /\ backups' = AddCopies(backups, b.copies)
          /\ backupDirs' = backupDirs \cup b.dirs
          /\ fs' = r.fs
          /\ calls' = r.log
          /\ runLog' = [Logged(runLog, r.log, b.called)
                          EXCEPT !.copyFailed = @ \cup b.failed]
  /\ pc' = "createScripts"
  /\ UNCHANGED <<ext, extBackups, clock, argVars, projectType, pre, prevRun,
                 mergeVars, callVars, giCalls, spawned, auxVars>>

\* createScripts({overwrite: force}): the writes only
CreateScripts ==
  /\ pc = "createScripts"
  /\ Writes([i \in DOMAIN scriptPaths |-> Item(scriptPaths[i])], force)
  /\ pc' = "createGitHubAction"
  /\ UNCHANGED <<ext, backupVars, clock, argVars, projectType, pre, prevRun,
                 mergeVars, callVars, giCalls, spawned, auxVars>>

CreateGitHubAction ==
  /\ pc = "createGitHubAction"
  /\ Writes(<<Item(".github/workflows/commit-policy.yml")>>, FALSE)
  /\ pc' = "setupMcp"
  /\ UNCHANGED <<ext, backupVars, clock, argVars, projectType, pre, prevRun,
                 mergeVars, callVars, giCalls, spawned, auxVars>>

\* if (setupMcp) setupMcpForClaudeDesktop({overwriteExistingServers: true})
SetupMcpUnconditional ==
  /\ pc = "setupMcp"
  /\ IF TRUE
     THEN \E failing1 \in SUBSET {p \in {CfgPath} : existsSync(ext, p)} :
          \E failing2 \in SUBSET {p \in {CfgPath} : existsSync(ext, p)} :
            LET r == setupMcpForClaudeDesktop(ext, TRUE, clock, failing1, failing2)
            IN /\ ext' = r.ext
               /\ extBackups' = AddCopies(extBackups, r.copies)
               /\ backupDirs' = backupDirs \cup r.dirs
               /\ runLog' = [runLog EXCEPT !.extWrote = r.wrote]
               /\ cfgLog' = [called |-> TRUE, before |-> safeRead(ext, CfgPath),
                             existed |-> existsSync(ext, CfgPath),
                             parseFails |-> r.parseFails, existing |-> r.existing,
                             patch |-> r.patch, merged |-> r.merged,
                             copies |-> r.copies,
                             failing1 |-> IF r.parseFails THEN failing1 ELSE {},
                             failing2 |-> failing2, wrote |-> r.wrote]
     ELSE UNCHANGED <<ext, extBackups, backupDirs, runLog, cfgLog>>
  /\ pc' = "generateInitialSnapshot"
  /\ UNCHANGED <<fs, backups, clock, argVars, projectType, pre, calls, prevRun,
                 mergeVars, callVars, giCalls, spawned, cliVars, cfgOpt, hookVars>>

SetupMcp ==
  /\ pc = "setupMcp"
  /\ IF setupMcp
     THEN \E failing1 \in SUBSET {p \in {CfgPath} : existsSync(ext, p)} :
          \E failing2 \in SUBSET {p \in {CfgPath} : existsSync(ext, p)} :
            LET r == setupMcpForClaudeDesktop(ext, TRUE, clock, failing1, failing2)
            IN /\ ext' = r.ext
               /\ extBackups' = AddCopies(extBackups, r.copies)
               /\ backupDirs' = backupDirs \cup r.dirs
               /\ runLog' = [runLog EXCEPT !.extWrote = r.wrote]
               /\ cfgLog' = [called |-> TRUE, before |-> safeRead(ext, CfgPath),
                             existed |-> existsSync(ext, CfgPath),
                             parseFails |-> r.parseFails, existing |-> r.existing,
                             patch |-> r.patch, merged |-> r.merged,
                             copies |-> r.copies,
                             failing1 |-> IF r.parseFails THEN failing1 ELSE {},
                             failing2 |-> failing2, wrote |-> r.wrote]
     ELSE UNCHANGED <<ext, extBackups, backupDirs, runLog, cfgLog>>
  /\ pc' = "generateInitialSnapshot"
  /\ UNCHANGED <<fs, backups, clock, argVars, projectType, pre, calls, prevRun,
                 mergeVars, callVars, giCalls, spawned, cliVars, cfgOpt, hookVars>>

\* generateInitialSnapshot: `npx -y repomix` writes .mcp/context.xml, unless
\* npx is missing or the subprocess fails (caught)
RepomixOutput == <<"repomix snapshot">>

GenerateInitialSnapshot ==
  /\ pc = "generateInitialSnapshot"
  /\ \E outcome \in {"no npx", "failed", "produced"} :
       /\ fs' = IF outcome = "produced"
                THEN [ensureDir(fs, ".mcp") EXCEPT ![SnapshotPath] = File(RepomixOutput)]
                ELSE ensureDir(fs, ".mcp")
       /\ spawned' = spawned \cup {"command -v npx"} \cup
                       (IF outcome = "no npx" THEN {} ELSE {"npx -y repomix"})
  /\ pc' = "done"
  /\ UNCHANGED <<ext, backupVars, clock, argVars, projectType, pre, calls,
                 runLog, prevRun, mergeVars, callVars, giCalls, auxVars>>

(***************************************************************************)
(* The command line: main() dispatches on args[0]                          *)
(***************************************************************************)
Tokens == {"", "init", "check", "--help", "-h", "help", "--force",
           "--setup-mcp", "status"}
Options == {"--force", "--setup-mcp"}
ArgVectors ==
  {<<>>} \cup {<<t>> : t \in Tokens}
    \cup {<<c, o>> : c \in {"init", "check"}, o \in Options}
    \cup {<<"--force", "init">>, <<"--setup-mcp", "check">>, <<"help", "init">>}

\* args.includes(x)
includes(a, x) == \E i \in DOMAIN a : a[i] = x

\* const cmd = args[0] || 'init'   ('' is falsy)
cmdAnyArg(a) ==
  IF includes(a, "init") \/ Len(a) = 0 THEN "init" ELSE a[1]

cmd(a) == IF Len(a) = 0 \/ a[1] = "" THEN "init" ELSE a[1]

\* main(), up to the first step of the command
Main ==
  /\ pc \in {"idle", "done", "crashed", "exited"}
  /\ clock < MaxCmds
  /\ clock' = clock + 1
  /\ \E a \in ArgVectors :
       /\ args' = a
       /\ force' = includes(a, "--force")
       /\ setupMcp' = includes(a, "--setup-mcp")
       /\ IF cmd(a) \in {"--help", "-h", "help"}
          THEN pc' = "exited" /\ exitCode' = 0          \* usage(); exit(0)
          ELSE IF cmd(a) = "check"
          THEN pc' = "healthCheck" /\ exitCode' = "none"
          ELSE IF cmd(a) # "init"
          THEN pc' = "exited" /\ exitCode' = 1          \* usage(); exit(1)
          ELSE pc' = "ensureGitRepo" /\ exitCode' = "none"
  /\ pre' = fs
  /\ prevRun' = IF pc = "done"
                THEN [valid |-> TRUE, end |-> fs, backups |-> backups,
                      extBackups |-> extBackups, backupDirs |-> backupDirs]
                ELSE NoRun
  /\ runLog' = RunLog0
  /\ calls' = <<>>
  /\ projectType' = "unset"
  /\ spawned' = {}
  /\ cfgLog' = NoCfgLog
  /\ checks' = NoChecks
  /\ deleted' = IF pc' = "ensureGitRepo" THEN "none" ELSE deleted
  /\ UNCHANGED <<fs, ext, backupVars, mergeVars, callVars, giCalls, cfgOpt, hookVars>>

\* healthCheck(): the files expected after init
expectedFiles ==
  <<"docs/ARCHITECTURE.md", "docs/CONVENTIONS.md", "docs/adr/ADR_TEMPLATE.md",
    ".cursorrules", "repomix.config.json", ".git/hooks/commit-msg",
    ".git/hooks/post-commit", "scripts/commit-checkpoint.sh",
    "scripts/commit-main.sh", "scripts/generate-context.sh",
    "scripts/create-adr.sh", ".github/workflows/commit-policy.yml">>

Check(name, ok, hint) == [name |-> name, ok |-> ok, hint |-> hint]

\* the checks array; f is the tree the file checks see, snapshotOk the result
\* of the snapshot step
healthCheckChecksFirstOnly(f, hasGit, hasNode, hasNpx, snapshotOk) ==
  <<Check("git", hasGit, "Install Git and ensure it is on PATH."),
    Check("node", hasNode, "Install Node.js (LTS recommended)."),
    Check("npx", hasNpx, "Install Node.js (npx comes with npm).")>>
  \o [i \in DOMAIN expectedFiles |->
        Check(expectedFiles[i], existsSync(f, expectedFiles[1]),
              "Run: node bootstrap.js init")]
  \o <<Check(".gitignore (excludes .mcp/)",
             existsSync(f, GitignorePath)
               /\ includesMarker(safeRead(f, GitignorePath)),
             "Run: node bootstrap.js init (will update .gitignore)"),
       Check(".mcp/context.xml (repomix snapshot)", snapshotOk,
             "Run: npx -y repomix (repomix.config.json must exist)")>>

healthCheckChecks(f, hasGit, hasNode, hasNpx, snapshotOk) ==
  <<Check("git", hasGit, "Install Git and ensure it is on PATH."),
    Check("node", hasNode, "Install Node.js (LTS recommended)."),
    Check("npx", hasNpx, "Install Node.js (npx comes with npm).")>>
  \o [i \in DOMAIN expectedFiles |->
        Check(expectedFiles[i], existsSync(f, expectedFiles[i]),
              "Run: node bootstrap.js init")]
  \o <<Check(".gitignore (excludes .mcp/)",
             existsSync(f, GitignorePath)
               /\ includesMarker(safeRead(f, GitignorePath)),
             "Run: node bootstrap.js init (will update .gitignore)"),
       Check(".mcp/context.xml (repomix snapshot)", snapshotOk,
             "Run: npx -y repomix (repomix.config.json must exist)")>>

\* healthCheck() and process.exit(0).  The repomix subprocess runs silent:
\* a failure is swallowed by runCommand
HealthCheck ==
  /\ pc = "healthCheck"
  /\ \E hasGit \in BOOLEAN : \E hasNode \in BOOLEAN : \E hasNpx \in BOOLEAN :
     \E writes \in BOOLEAN :
       /\ spawned' = spawned \cup {"command -v git", "command -v node", "command -v npx"}
                        \cup (IF hasNpx /\ fs[GitignorePath].kind # "dir"
                              THEN {"npx -y repomix"} ELSE {})
       /\ IF fs[GitignorePath].kind = "dir"
          THEN \* fs.readFileSync('.gitignore') throws EISDIR, nothing catches it
               /\ pc' = "crashed"
               /\ exitCode' = 1
               /\ UNCHANGED <<fs, checks>>
          ELSE LET f1 == IF ~hasNpx THEN fs
                         ELSE IF writes
                         THEN [ensureDir(fs, ".mcp") EXCEPT
                                 ![SnapshotPath] = File(RepomixOutput)]
                         ELSE ensureDir(fs, ".mcp")
                   snapshotOk == hasNpx /\ existsSync(f1, SnapshotPath)
               IN /\ fs' = f1
                  /\ checks' = healthCheckChecks(fs, hasGit, hasNode, hasNpx, snapshotOk)
                  /\ pc' = "exited"
                  /\ exitCode' = 0
  /\ UNCHANGED <<ext, backupVars, clock, argVars, projectType, pre, calls,
                 runLog, prevRun, mergeVars, callVars, giCalls, args, deleted, cfgVars,
                 hookVars>>

\* what healthCheck prints: pass, the percentage and the hints
Passed(cs) == Cardinality({i \in DOMAIN cs : cs[i].ok})
\* a percentage rounded up to the next ten
PctUpToTens(cs) == 10 * ((10 * Passed(cs) + Len(cs) - 1) \div Len(cs))

\* Math.round((pass / checks.length) * 100)
Pct(cs) == (200 * Passed(cs) + Len(cs)) \div (2 * Len(cs))
\* the closing line healthCheck prints
summaryLine(cs) ==
  IF Pct(cs) < 100
  THEN "Fix the red items above, then re-run: node bootstrap.js check"
  ELSE "System looks ready. You can switch tools and rely on repo snapshots + commit history."

FailedNames(cs) == {cs[i].name : i \in {j \in DOMAIN cs : ~cs[j].ok}}
PrintedHints(cs) == {cs[i].hint : i \in {j \in DOMAIN cs : ~cs[j].ok}}

\* the user deletes one of the expected files after init completed
DeleteExpected ==
  /\ pc = "done"
  /\ deleted = "none"
  /\ \E i \in DOMAIN expectedFiles :
       /\ existsSync(fs, expectedFiles[i])
       /\ fs' = [fs EXCEPT ![expectedFiles[i]] = Absent]
       /\ deleted' = expectedFiles[i]
  /\ UNCHANGED <<ext, backupVars, clock, pc, argVars, projectType, pre, calls,
                 runLog, prevRun, mergeVars, callVars, giCalls, spawned, args, exitCode,
                 checks, cfgVars, hookVars>>

(***************************************************************************)
(* Initial states: the directory the command is run in                     *)
(***************************************************************************)
GitignoreSamples ==
  {<<>>, <<"node_modules/", "\n", "\n">>, <<".mcp/context.xml", "\n">>}

\* a tree holding the paths of P (and their parent directories)
Tree(P, gitignore) ==
  [p \in Paths |->
     IF p \in P /\ p \in Files
     THEN File(IF p = GitignorePath THEN gitignore ELSE UserContent)
     ELSE IF \E q \in P : p \in AncestorsOrSelf(q) THEN DirEntry
     ELSE Absent]

StartDirs == {".git", "src", "src/core", "docs"}

\* the files already present: none, a single one (one script of each
\* flavour stands for the eight), all of one kind, or all
StartFileSets ==
  {{}} \cup {{x} : x \in Files \ (ScriptFiles \ {scriptPaths[1], scriptPaths[6]})}
       \cup {DocFiles, HookFiles, ScriptFiles, Files}

StartTrees ==
  {Tree(U \cup D, g) : U \in StartFileSets, D \in SUBSET StartDirs,
                       g \in GitignoreSamples}

ExtTree(data) ==
  (CfgDir :> (IF data = <<>> THEN Absent ELSE DirEntry)) @@
  (CfgPath :> (IF data = <<>> THEN Absent ELSE File(data)))

\* the first --setup-mcp run creates the config, later ones find it
StartConfigs == {ExtTree(<<>>)}

AuxInit ==
  /\ spawned = {}
  /\ args = NoArgs
  /\ exitCode = "none"
  /\ checks = NoChecks
  /\ deleted = "none"
  /\ cfgOpt = TRUE
  /\ cfgLog = NoCfgLog
  /\ subject = NoSubject
  /\ hookExit = "none"
  /\ workflowExit = "none"

InitCommon ==
  /\ backups = {}
  /\ extBackups = {}
  /\ backupDirs = {}
  /\ clock = 0
  /\ force = FALSE
  /\ setupMcp = FALSE
  /\ projectType = "unset"
  /\ calls = <<>>
  /\ runLog = RunLog0
  /\ prevRun = NoRun
  /\ giCalls = 0
  /\ AuxInit

Init ==
  /\ fs \in StartTrees
  /\ ext \in StartConfigs
  /\ pre = fs
  /\ pc = "idle"
  /\ mObj = Undefined /\ mPatch = Undefined /\ mOut = Undefined
  /\ adrLog = NoAdrLog
  /\ adrFiles = {}
  /\ origin = NoOrigin
  /\ twin = NoTwin
  /\ bkLog = NoBkLog
  /\ InitCommon

Next ==
  \/ StartRun
  \/ EnsureGitRepo
  \/ WarnDirtyWorkingTree
  \/ DetectProjectType
  \/ CreateDirectories
  \/ EnsureGitignore
  \/ CreateDocs
  \/ CreateCursorRules
  \/ CreateRepomixConfig
  \/ CreateMcpSnippets
  \/ CreateGitHooks
  \/ CreateScripts
  \/ CreateGitHubAction
  \/ SetupMcp
  \/ GenerateInitialSnapshot

Spec == Init /\ [][Next]_vars

(***************************************************************************)
(* The command line: any command, in a directory that was or was not       *)
(* initialised; .gitignore may be a directory (unreadable as a file)       *)
(***************************************************************************)
GitignoreDir(f) == [f EXCEPT ![GitignorePath] = DirEntry]

CliTrees ==
  {Tree({}, <<>>),
   Tree(Files \cup {".git"}, <<".mcp/context.xml", "\n">>),
   GitignoreDir(Tree({".git", "src"}, <<>>))}

CliInit ==
  /\ fs \in CliTrees
  /\ ext \in StartConfigs
  /\ pre = fs
  /\ pc = "idle"
  /\ mObj = Undefined /\ mPatch = Undefined /\ mOut = Undefined
  /\ adrLog = NoAdrLog
  /\ adrFiles = {}
  /\ origin = NoOrigin
  /\ twin = NoTwin
  /\ bkLog = NoBkLog
  /\ InitCommon

CliNext ==
  \/ Main
  \/ EnsureGitRepo
  \/ WarnDirtyWorkingTree
  \/ DetectProjectType
  \/ CreateDirectories
  \/ EnsureGitignore
  \/ CreateDocs
  \/ CreateCursorRules
  \/ CreateRepomixConfig
  \/ CreateMcpSnippets
  \/ CreateGitHooks
  \/ CreateScripts
  \/ CreateGitHubAction
  \/ SetupMcp
  \/ GenerateInitialSnapshot
  \/ DeleteExpected
  \/ HealthCheck

SpecCli == CliInit /\ [][CliNext]_vars

(***************************************************************************)
(* Harness: detectProjectType on every combination of the paths it tests   *)
(***************************************************************************)
ProbePaths == {".git", "docs", ArchPath} \cup CodeDirs

ProbeInit ==
  /\ fs \in {Tree(P, <<>>) : P \in SUBSET ProbePaths}
  /\ ext \in StartConfigs
  /\ pre = fs
  /\ pc = "probe"
  /\ mObj = Undefined /\ mPatch = Undefined /\ mOut = Undefined
  /\ adrLog = NoAdrLog
  /\ adrFiles = {}
  /\ origin = NoOrigin
  /\ twin = NoTwin
  /\ bkLog = NoBkLog
  /\ InitCommon

Probe ==
  /\ pc = "probe"
  /\ projectType' = detectProjectType(fs)
  /\ pc' = "probed"
  /\ UNCHANGED <<fs, ext, backupVars, clock, argVars, pre, calls, runLog,
                 prevRun, mergeVars, callVars, giCalls, spawned, auxVars>>

ProbeNext == Probe

SpecProbe == ProbeInit /\ [][ProbeNext]_vars

(***************************************************************************)
(* Harness: deepMerge on JSON trees two levels deep.  The existing tree    *)
(* and the patch draw their scalars and lists from different values, so    *)
(* that a replaced value shows.                                            *)
(***************************************************************************)
ObjectsOver(K, V) == UNION {{Obj(f) : f \in [S -> V]} : S \in SUBSET K}

ExistingLeaves == {Num("1"), Str(<<"s">>), Arr(<<Num("1")>>)}
PatchLeaves == {Num("2"), Arr(<<Num("2"), Num("3")>>), Obj(EmptyKV)}
ExistingValues == ExistingLeaves \cup ObjectsOver({"x", "y"}, ExistingLeaves)
PatchValues == PatchLeaves \cup ObjectsOver({"y", "z"}, PatchLeaves)
ExistingTrees == ObjectsOver({"a", "b"}, ExistingValues)
PatchTrees == ObjectsOver({"a", "c"}, PatchValues)

MergeInit ==
  /\ mObj \in ExistingTrees \cup ExistingLeaves \cup {Undefined, Null}
  /\ mPatch \in PatchTrees
  /\ mOut = Undefined
  /\ adrLog = NoAdrLog
  /\ adrFiles = {}
  /\ origin = NoOrigin
  /\ twin = NoTwin
  /\ bkLog = NoBkLog
  /\ fs = Tree({}, <<>>)
  /\ ext \in StartConfigs
  /\ pre = fs
  /\ pc = "merge"
  /\ InitCommon

Merge ==
  /\ pc = "merge"
  /\ mOut' = deepMerge(mObj, mPatch)
  /\ pc' = "merged"
  /\ UNCHANGED <<fs, ext, backupVars, clock, argVars, projectType, pre, calls,
                 runLog, prevRun, mObj, mPatch, callVars, giCalls, spawned, auxVars>>

MergeNext == Merge

SpecMerge == MergeInit /\ [][MergeNext]_vars

(***************************************************************************)
(* Harness: setupMcpForClaudeDesktop on a config file that is absent,      *)
(* blank, not JSON, or holds a JSON value (any value, not only an object)  *)
(***************************************************************************)
ServerValues ==
  {Null, Str(<<"x">>), Obj("command" :> Str(<<"old">>)),
   Obj(("command" :> Str(<<"old">>)) @@ ("env" :> Obj("K" :> Str(<<"v">>))))}
McpServersValues ==
  {Null, Arr(<<>>), Str(<<"s">>)} \cup ObjectsOver({"repomix", "other"}, ServerValues)
ConfigObjects ==
  {Obj(f) : f \in UNION {[S -> McpServersValues] : S \in SUBSET {"mcpServers"}}} \cup
  {Obj(f @@ ("theme" :> Str(<<"dark">>))) :
     f \in UNION {[S -> McpServersValues] : S \in SUBSET {"mcpServers"}}}
ConfigValues ==
  {Null, Num("1"), Str(<<"s">>), Arr(<<Num("1")>>)} \cup ConfigObjects
\* the text of a config file holding the value v, as the user wrote it
UserJson(v) == <<[raw |-> "json", val |-> v]>>
ConfigTexts == {<<>>, BlankText, BadText} \cup {UserJson(v) : v \in ConfigValues}

ConfigInit ==
  /\ ext \in {ExtTree(t) : t \in ConfigTexts} \cup
              {(CfgDir :> DirEntry) @@ (CfgPath :> Absent)}
  /\ fs = Tree({}, <<>>)
  /\ pre = fs
  /\ pc = "config"
  /\ mObj = Undefined /\ mPatch = Undefined /\ mOut = Undefined
  /\ adrLog = NoAdrLog
  /\ adrFiles = {}
  /\ origin = NoOrigin
  /\ twin = NoTwin
  /\ bkLog = NoBkLog
  /\ backups = {} /\ extBackups = {} /\ backupDirs = {}
  /\ clock = 0 /\ force = FALSE /\ setupMcp = TRUE
  /\ projectType = "unset"
  /\ calls = <<>>
  /\ runLog = RunLog0
  /\ prevRun = NoRun
  /\ giCalls = 0
  /\ spawned = {}
  /\ args = NoArgs /\ exitCode = "none" /\ checks = NoChecks /\ deleted = "none"
  /\ cfgOpt \in BOOLEAN
  /\ cfgLog = NoCfgLog
  /\ subject = NoSubject /\ hookExit = "none"
  /\ workflowExit = "none"

\* one call setupMcpForClaudeDesktop({overwriteExistingServers: cfgOpt})
SetupMcpCall ==
  /\ pc = "config"
  /\ \E failing1 \in SUBSET {p \in {CfgPath} : existsSync(ext, p)} :
     \E failing2 \in SUBSET {p \in {CfgPath} : existsSync(ext, p)} :
       LET r == setupMcpForClaudeDesktop(ext, cfgOpt, clock + 1, failing1, failing2)
       IN /\ ext' = r.ext
          /\ extBackups' = AddCopies(extBackups, r.copies)
          /\ backupDirs' = backupDirs \cup r.dirs
          /\ cfgLog' = [called |-> TRUE, before |-> safeRead(ext, CfgPath),
                        existed |-> existsSync(ext, CfgPath),
                        parseFails |-> r.parseFails, existing |-> r.existing,
                        patch |-> r.patch, merged |-> r.merged,
                        copies |-> r.copies,
                        failing1 |-> IF r.parseFails THEN failing1 ELSE {},
                        failing2 |-> failing2, wrote |-> r.wrote]
  /\ clock' = clock + 1
  /\ pc' = "configured"
  /\ UNCHANGED <<fs, backups, argVars, projectType, pre, calls, runLog, prevRun,
                 mergeVars, callVars, giCalls, spawned, cliVars, cfgOpt, hookVars>>

ConfigNext == SetupMcpCall

SpecConfig == ConfigInit /\ [][ConfigNext]_vars

\* a later call: it finds the file the earlier call wrote
SetupMcpAgain ==
  /\ pc = "configured"
  /\ clock < MaxSetups
  /\ \E failing1 \in SUBSET {p \in {CfgPath} : existsSync(ext, p)} :
     \E failing2 \in SUBSET {p \in {CfgPath} : existsSync(ext, p)} :
       LET r == setupMcpForClaudeDesktop(ext, cfgOpt, clock + 1, failing1, failing2)
       IN /\ ext' = r.ext
          /\ extBackups' = AddCopies(extBackups, r.copies)
          /\ backupDirs' = backupDirs \cup r.dirs
          /\ cfgLog' = [called |-> TRUE, before |-> safeRead(ext, CfgPath),
                        existed |-> existsSync(ext, CfgPath),
                        parseFails |-> r.parseFails, existing |-> r.existing,
                        patch |-> r.patch, merged |-> r.merged,
                        copies |-> r.copies,
                        failing1 |-> IF r.parseFails THEN failing1 ELSE {},
                        failing2 |-> failing2, wrote |-> r.wrote]
  /\ clock' = clock + 1
  /\ UNCHANGED <<fs, backups, pc, argVars, projectType, pre, calls, runLog,
                 prevRun, mergeVars, callVars, giCalls, spawned, cliVars,
                 cfgOpt, hookVars>>

ConfigTwiceNext == SetupMcpCall \/ SetupMcpAgain

SpecConfigTwice == ConfigInit /\ [][ConfigTwiceNext]_vars

(***************************************************************************)
(* Harness: the commit-msg hook on commit messages.  The first line is     *)
(* put together from a head, a scope part, a separator and a text; the     *)
(* line ends the file, or is followed by a body, or ends in CR LF.         *)
(***************************************************************************)
SubjectHeads ==
  {<<"f", "e", "a", "t">>,
   <<"f", "i", "x">>,
   <<"r", "e", "f", "a", "c", "t", "o", "r">>,
   <<"d", "o", "c", "s">>,
   <<"t", "e", "s", "t">>,
   <<"c", "h", "o", "r", "e">>,
   <<"c", "h", "e", "c", "k", "p", "o", "i", "n", "t">>,
   <<"F", "e", "a", "t">>,
   <<"F", "I", "X">>,
   <<"w", "i", "p">>,
   <<"f", "i", "x", "e", "d">>,
   <<"f", "e", "a", "t", "u", "r", "e">>,
   <<"M", "e", "r", "g", "e">>,
   <<"R", "e", "v", "e", "r", "t">>,
   <<"m", "e", "r", "g", "e">>,
   <<>>,
   <<" ", "f", "e", "a", "t">>}
SubjectScopes ==
  {<<>>,
   <<"(", "a", "u", "t", "h", ")">>,
   <<"(", "A", "u", "t", "h", ")">>,
   <<"(", ")">>,
   <<"(", "m", "y", " ", "s", "c", "o", "p", "e", ")">>,
   <<"(", "a", "-", "b", "_", "1", ")">>,
   <<"(", "a", "u", "t", "h">>,
   <<"(", "u", "i", ")">>}
SubjectSeps ==
  {<<":", " ">>,
   <<":">>,
   <<" ">>,
   <<>>}
SubjectTexts ==
  {<<>>,
   <<"x">>,
   <<"a", "d", "d", " ", "t", "o", "k", "e", "n", " ", "c", "h", "e", "c", "k">>,
   <<"b", "r", "a", "n", "c", "h", " ", "'", "x", "'">>,
   <<"s", "p", "a", "c", "i", "n", "g">>}
LineEnds == {<<>>, <<"\n", "b", "o", "d", "y">>, <<"\r", "\n">>}

Subjects ==
  [head : SubjectHeads, scope : SubjectScopes, sep : SubjectSeps,
   text : SubjectTexts, eol : LineEnds]

\* the message file git hands to the hook
MessageFile(sub) == sub.head \o sub.scope \o sub.sep \o sub.text \o sub.eol

HookInit ==
  /\ subject \in Subjects
  /\ hookExit = "none"
  /\ workflowExit = "none"
  /\ fs = Tree({".git", ".git/hooks/commit-msg"}, <<>>)
  /\ ext \in StartConfigs
  /\ pre = fs
  /\ pc = "commit"
  /\ mObj = Undefined /\ mPatch = Undefined /\ mOut = Undefined
  /\ adrLog = NoAdrLog
  /\ adrFiles = {}
  /\ origin = NoOrigin
  /\ twin = NoTwin
  /\ bkLog = NoBkLog
  /\ backups = {} /\ extBackups = {} /\ backupDirs = {}
  /\ clock = 0 /\ force = FALSE /\ setupMcp = FALSE
  /\ projectType = "unset"
  /\ calls = <<>>
  /\ runLog = RunLog0
  /\ prevRun = NoRun
  /\ giCalls = 0
  /\ spawned = {}
  /\ args = NoArgs /\ exitCode = "none" /\ checks = NoChecks /\ deleted = "none"
  /\ cfgOpt = TRUE /\ cfgLog = NoCfgLog

\* git commit runs .git/hooks/commit-msg on the message file
CommitMsgHook ==
  /\ pc = "commit"
  /\ hookExit' = commitMsgHook(MessageFile(subject))
  /\ pc' = IF hookExit' = 0 THEN "committed" ELSE "blocked"
  /\ UNCHANGED <<fs, ext, backupVars, clock, argVars, projectType, pre, calls,
                 runLog, prevRun, mergeVars, callVars, giCalls, spawned, cliVars,
                 cfgVars, subject, workflowExit>>

\* the commit (made through the hook, or with --no-verify when the hook
\* blocked it) is pushed: the workflow validates `git log --format=%s`
ValidateCommitMessages ==
  /\ pc \in {"committed", "blocked"}
  /\ workflowExit' = commitPolicyWorkflow(DeleteCR(FirstLine(MessageFile(subject))))
  /\ pc' = "pushed"
  /\ UNCHANGED <<fs, ext, backupVars, clock, argVars, projectType, pre,
                 calls, runLog, prevRun, mergeVars, callVars, giCalls, spawned, cliVars,
                 cfgVars, subject, hookExit>>

HookNext == CommitMsgHook \/ ValidateCommitMessages

SpecHook == HookInit /\ [][HookNext]_vars

(***************************************************************************)
(* Harness: consecutive ensureGitignore calls on any short .gitignore      *)
(***************************************************************************)
GitignoreChunks ==
  {"node_modules/", "\n", " ", ".mcp/context.xml", "old/.mcp/context.xml.bak"}

RECURSIVE SeqsUpTo(_, _)
SeqsUpTo(S, n) ==
  IF n = 0 THEN {<<>>}
  ELSE LET T == SeqsUpTo(S, n - 1) IN T \cup {Append(t, x) : t \in T, x \in S}

GitignoreInit ==
  /\ fs \in {Tree({}, <<>>)} \cup
            {Tree({GitignorePath}, c) : c \in SeqsUpTo(GitignoreChunks, MaxGiLen)}
  /\ ext \in StartConfigs
  /\ pre = fs
  /\ pc = "gitignore"
  /\ mObj = Undefined /\ mPatch = Undefined /\ mOut = Undefined
  /\ adrLog = NoAdrLog
  /\ adrFiles = {}
  /\ origin = NoOrigin
  /\ twin = NoTwin
  /\ bkLog = NoBkLog
  /\ backups = {} /\ extBackups = {} /\ backupDirs = {}
  /\ clock = 0 /\ force = FALSE /\ setupMcp = FALSE
  /\ projectType = "unset"
  /\ calls = <<>>
  /\ runLog = RunLog0
  /\ prevRun = [NoRun EXCEPT !.end = fs]     \* the file before the first call
  /\ giCalls = 0
  /\ AuxInit

GitignoreCall ==
  /\ pc = "gitignore"
  /\ giCalls < MaxGiCalls
  /\ LET r == ensureGitignore(fs) IN
       /\ fs' = r.fs
       /\ runLog' = [runLog EXCEPT !.giWrote = r.wrote]
  /\ pre' = fs
  /\ giCalls' = giCalls + 1
  /\ UNCHANGED <<ext, backupVars, clock, pc, argVars, projectType, calls,
                 prevRun, mergeVars, callVars, spawned, auxVars>>

GitignoreNext == GitignoreCall

SpecGitignore == GitignoreInit /\ [][GitignoreNext]_vars

(***************************************************************************)
(* Backup harness: createBackup called with a list of paths                *)
(***************************************************************************)
BackupCandidates == {".git/hooks/commit-msg", ".git/hooks/post-commit",
                     "docs/ARCHITECTURE.md"}
BackupPathLists ==
  UNION {[1..n -> BackupCandidates] : n \in 0..MaxBackupPaths}

BackupInit ==
  /\ \E P \in SUBSET BackupCandidates : fs = Tree(P, <<>>)
  /\ ext \in StartConfigs
  /\ pre = fs
  /\ pc = "backup"
  /\ mObj = Undefined /\ mPatch = Undefined /\ mOut = Undefined
  /\ adrLog = NoAdrLog
  /\ adrFiles = {}
  /\ origin = NoOrigin
  /\ twin = NoTwin
  /\ bkLog = NoBkLog
  /\ spawned = {}
  /\ InitCommon

\* createBackup(pathsToBackup); failing: the paths whose copy throws twice
CreateBackupCall ==
  /\ pc = "backup"
  /\ \E pathsToBackup \in BackupPathLists :
       \E failing \in SUBSET {p \in BackupCandidates : existsSync(fs, p)} :
         LET b == createBackup(fs, pathsToBackup, clock, failing)
         IN /\ backups' = AddCopies(backups, b.copies)
            /\ backupDirs' = backupDirs \cup b.dirs
            /\ bkLog' = [called |-> TRUE, paths |-> pathsToBackup,
                         failing |-> failing, result |-> b.result]
  /\ pc' = "backedUp"
  /\ UNCHANGED <<fs, ext, extBackups, clock, argVars, projectType, pre, calls,
                 runLog, prevRun, mergeVars, twin, origin, adrFiles, adrLog,
                 giCalls, spawned, auxVars>>

BackupNext == CreateBackupCall
SpecBackup == BackupInit /\ [][BackupNext]_vars

(***************************************************************************)
(* A whole init run as a function of the directory it starts in: the steps *)
(* of main in their order, for a run in which no subprocess fails          *)
(***************************************************************************)
initRun(f, overwrite) ==
  LET f0 == ensureDir(IF existsSync(f, ".git") THEN f
                      ELSE [f EXCEPT ![".git"] = DirEntry], ".git/hooks")
      type == detectProjectType(f0)
      f1 == EnsureDirs(f0, createDirectoriesDirs)
      g == ensureGitignore(f1)
      w1 == WriteAll(g.fs,
              <<[path |-> ArchPath, content |-> architecture(type, g.fs)],
                Item("docs/CONVENTIONS.md"), Item("docs/adr/ADR_TEMPLATE.md"),
                Item(".cursorrules"), Item("repomix.config.json")>>
              \o [i \in DOMAIN mcpSnippetPaths |-> Item(mcpSnippetPaths[i])],
              FALSE)
      w2 == WriteAll(w1.fs,
              [i \in DOMAIN hookPaths |-> Item(hookPaths[i])]
              \o [i \in DOMAIN scriptPaths |-> Item(scriptPaths[i])], overwrite)
      w3 == WriteAll(w2.fs, <<Item(".github/workflows/commit-policy.yml")>>,
                     FALSE)
  IN [type |-> type, log |-> w1.log \o w2.log \o w3.log, fs |-> w3.fs]

\* the content a run wrote per artifact (<<>>: the artifact was not written)
WrittenBy(log) ==
  [p \in ArtifactFiles |->
     IF \E i \in DOMAIN log : log[i].filePath = p /\ log[i].wrote
     THEN log[CHOOSE i \in DOMAIN log : log[i].filePath = p /\ log[i].wrote].content
     ELSE <<>>]

(***************************************************************************)
(* Twin harness: init run in two target directories                        *)
(***************************************************************************)
TwinFileSets == {{}, {ArchPath}, HookFiles, TechFiles}
TwinTrees ==
  {Tree(U \cup D, <<>>) : U \in TwinFileSets, D \in SUBSET StartDirs}

TwinInit ==
  /\ fs \in TwinTrees
  /\ ext \in StartConfigs
  /\ pre = fs
  /\ pc = "twin"
  /\ mObj = Undefined /\ mPatch = Undefined /\ mOut = Undefined
  /\ adrLog = NoAdrLog
  /\ adrFiles = {}
  /\ origin = NoOrigin
  /\ bkLog = NoBkLog
  /\ \E t \in TwinTrees : twin = [NoTwin EXCEPT !.fs = t]
  /\ InitCommon

\* node bootstrap.js init [--force] in the first directory
InitRunHere ==
  /\ pc = "twin"
  /\ projectType = "unset"
  /\ \E overwrite \in BOOLEAN :
       LET r == initRun(fs, overwrite) IN
         /\ fs' = r.fs
         /\ projectType' = r.type
         /\ calls' = r.log
  /\ UNCHANGED <<ext, backupVars, clock, argVars, pc, pre, runLog, prevRun,
                 mergeVars, bkLog, twin, origin, adrFiles, adrLog, giCalls,
                 spawned, auxVars>>

\* node bootstrap.js init [--force] in the second directory
InitRunTwin ==
  /\ pc = "twin"
  /\ ~twin.done
  /\ \E overwrite \in BOOLEAN :
       LET r == initRun(twin.fs, overwrite) IN
         twin' = [done |-> TRUE, fs |-> r.fs, type |-> r.type,
                  written |-> WrittenBy(r.log)]
  /\ UNCHANGED <<fs, ext, backupVars, clock, argVars, projectType, pc, pre,
                 calls, runLog, prevRun, mergeVars, bkLog, origin, adrFiles,
                 adrLog, giCalls, spawned, auxVars>>

TwinNext == InitRunHere \/ InitRunTwin
SpecTwin == TwinInit /\ [][TwinNext]_vars

(***************************************************************************)
(* Resume harness: an init run may be terminated from outside between two  *)
(* of its steps, and init is run again                                     *)
(***************************************************************************)
RunSteps == {"ensureGitRepo", "warnDirtyWorkingTree", "detectProjectType",
             "createDirectories", "ensureGitignore", "createDocs",
             "createCursorRules", "createRepomixConfig", "createMcpSnippets",
             "createGitHooks", "createScripts", "createGitHubAction",
             "setupMcp", "generateInitialSnapshot"}

\* the last tree: src is a file, so that readdirSync('src') throws
ResumeTrees ==
  {Tree(U \cup D, <<>>) : U \in {{}, {ArchPath}},
                          D \in SUBSET {".git", "src"}}
  \cup {[Tree({".git"}, <<>>) EXCEPT !["src"] = File(UserContent)]}

ResumeInit ==
  /\ fs \in ResumeTrees
  /\ ext \in StartConfigs
  /\ pre = fs
  /\ pc = "idle"
  /\ mObj = Undefined /\ mPatch = Undefined /\ mOut = Undefined
  /\ adrLog = NoAdrLog
  /\ adrFiles = {}
  /\ bkLog = NoBkLog
  /\ twin = NoTwin
  /\ origin = NoOrigin
  /\ InitCommon

\* the process is terminated from outside; pc names the step that would
\* have come next
Terminate ==
  /\ pc \in RunSteps
  /\ pc' = "killed"
  /\ origin' = [valid |-> TRUE, fs |-> pre, at |-> pc, force |-> force,
                run |-> clock]
  /\ UNCHANGED <<fs, ext, backupVars, clock, argVars, projectType, pre, calls,
                 runLog, prevRun, mergeVars, bkLog, twin, adrFiles, adrLog,
                 giCalls, spawned, auxVars>>

ResumeNext ==
  \/ StartRun
  \/ EnsureGitRepo
  \/ WarnDirtyWorkingTree
  \/ DetectProjectType
  \/ CreateDirectories
  \/ EnsureGitignore
  \/ CreateDocs
  \/ CreateCursorRules
  \/ CreateRepomixConfig
  \/ CreateMcpSnippets
  \/ CreateGitHooks
  \/ CreateScripts
  \/ CreateGitHubAction
  \/ SetupMcp
  \/ GenerateInitialSnapshot
  \/ Terminate

SpecResume == ResumeInit /\ [][ResumeNext]_vars

(***************************************************************************)
(* scripts/create-adr.sh: the script text of adrCreate, run by /bin/sh     *)
(***************************************************************************)
\* an ADR file docs/adr/ADR-<number>-<slug>.md: the number is printed with
\* three digits, so a number above 999 has four
AdrFile(n, slug, data) == [n |-> n, slug |-> slug, data |-> data]

\* ls -1 docs/adr/ADR-[0-9][0-9][0-9]-*.md
AdrGlob(files) == {f \in files : f.n <= 999}

\* printf "%03d" and the digits sed extracts from the file name
ThreeDigits(n) == <<n \div 100, (n \div 10) % 10, n % 10>>

\* sort -n | tail -1: the digits of the highest number
AdrLast(files) ==
  ThreeDigits(CHOOSE n \in {f.n : f \in AdrGlob(files)} :
                \A f \in AdrGlob(files) : f.n <= n)

\* $((LAST + 1)): a constant with a leading 0 is octal, and 8 and 9 are not
\* octal digits
ShellArithmetic(ds) ==
  IF ds[1] # 0 THEN [ok |-> TRUE, val |-> 100 * ds[1] + 10 * ds[2] + ds[3] + 1]
  ELSE IF ds[2] >= 8 \/ ds[3] >= 8 THEN [ok |-> FALSE, val |-> 0]
  ELSE [ok |-> TRUE, val |-> 8 * ds[2] + ds[3] + 1]

\* the script; shell: "dash" ends the script at an arithmetic error, "bash"
\* prints the error, leaves NEXT empty and goes on (printf prints 000).
\* The last echo is a syntax error in both, after the file is written.
adrCreate(files, slug, shell) ==
  LET none == AdrGlob(files) = {}
      next == IF none THEN [ok |-> TRUE, val |-> 1]
              ELSE ShellArithmetic(AdrLast(files))
  IN IF ~next.ok /\ shell = "dash"
     THEN [files |-> files, created |-> FALSE, file |-> 0, exit |-> 2]
     ELSE LET NEXT == IF next.ok THEN next.val ELSE 0 IN
          [files |-> {f \in files : ~(f.n = NEXT /\ f.slug = slug)}
                       \cup {AdrFile(NEXT, slug, "template")},
           created |-> TRUE, file |-> NEXT, exit |-> 2]

(***************************************************************************)
(* ADR harness: create-adr.sh called in a project that has ADR files       *)
(***************************************************************************)
AdrNumbers == {1, 7, 8, 9, 10, 16, 17, 99, 999}
AdrSlugs == {"x", "y"}
Shells == {"dash", "bash"}

AdrInit ==
  /\ fs = Tree({".git", "docs/adr/ADR_TEMPLATE.md", "scripts/create-adr.sh"}, <<>>)
  /\ ext \in StartConfigs
  /\ pre = fs
  /\ pc = "adr"
  /\ mObj = Undefined /\ mPatch = Undefined /\ mOut = Undefined
  /\ bkLog = NoBkLog
  /\ twin = NoTwin
  /\ origin = NoOrigin
  /\ \E S \in SUBSET AdrNumbers : adrFiles = {AdrFile(n, "x", "user") : n \in S}
  /\ adrLog = NoAdrLog
  /\ InitCommon

\* scripts/create-adr.sh <slug>
CreateAdr ==
  /\ pc = "adr"
  /\ giCalls < MaxAdrCalls
  /\ \E slug \in AdrSlugs : \E shell \in Shells :
       LET r == adrCreate(adrFiles, slug, shell) IN
         /\ adrFiles' = r.files
         /\ adrLog' = [called |-> TRUE, before |-> adrFiles, slug |-> slug,
                       created |-> r.created, file |-> r.file, exit |-> r.exit]
  /\ giCalls' = giCalls + 1
  /\ UNCHANGED <<fs, ext, backupVars, clock, pc, argVars, projectType, pre,
                 calls, runLog, prevRun, mergeVars, bkLog, twin, origin,
                 spawned, auxVars>>

AdrNext == CreateAdr
SpecAdr == AdrInit /\ [][AdrNext]_vars

(***************************************************************************)
(* Properties                                                              *)
(***************************************************************************)
InRun == pc # "idle"

\* the text ensureGitignore leaves when it appends to a file holding c
Appended(c) == trimEnd(c) \o mcpSection \o <<"\n">>

\* C1 (as stated): in an init run without --force no file that existed
\* before the run has its content changed.
C1_NoExistingFileChanged ==
  (InRun /\ ~force) =>
    \A p \in Paths : pre[p].kind = "file" => fs[p] = pre[p]

\* C1 (amended): in an init run without --force no file that existed before
\* the run has its content changed, except .gitignore, which only ever gets
\* the generated section appended when it lacks the marker, and
\* .mcp/context.xml, which only the snapshot subprocess rewrites.
C1_ExistingFilesKept ==
  (InRun /\ ~force) =>
    /\ \A p \in Paths \ {GitignorePath, SnapshotPath} :
         pre[p].kind = "file" => fs[p] = pre[p]
    /\ pre[GitignorePath].kind = "file" =>
         \/ fs[GitignorePath] = pre[GitignorePath]
         \/ /\ ~includesMarker(pre[GitignorePath].data)
            /\ fs[GitignorePath] = File(Appended(pre[GitignorePath].data))
    /\ pre[SnapshotPath].kind = "file" =>
         fs[SnapshotPath] \in {pre[SnapshotPath], File(RepomixOutput)}

C1_Witness ==
  /\ pc = "done" /\ ~force /\ runLog.nCalls > 0
  /\ \E p \in ArtifactFiles : pre[p] = File(UserContent) /\ ~runLog.allSkipped

\* C2: a writeFileSafe call on an existing target without overwrite leaves
\* the file as it was and returns {wrote:false, skipped:true}; every other
\* call ensures the parent directory, makes the file's content the given
\* content and returns {wrote:true, skipped:false}; exactly one of the two
\* flags is set.
C2_WriteFileSafeContract ==
  \A i \in DOMAIN calls :
    LET c == calls[i] IN
    /\ c.wrote # c.skipped
    /\ IF c.before.kind # "absent" /\ ~c.overwrite
       THEN c.after = c.before /\ c.skipped /\ ~c.wrote
       ELSE /\ c.parentAfter = "dir"
            /\ c.after = File(c.content)
            /\ c.wrote /\ ~c.skipped

C2_Witness ==
  /\ \E i \in DOMAIN calls : calls[i].skipped /\ calls[i].before.kind = "file"
  /\ \E i \in DOMAIN calls : calls[i].wrote /\ calls[i].before.kind = "absent"

\* C3: every hook or helper script that an init --force run overwrote while
\* it existed was passed to createBackup before the overwrite, and (unless
\* the copy itself failed) the backup directory of the run holds its
\* pre-overwrite content.
C3_BackupBeforeOverwrite ==
  \A p \in runLog.overwritten \cap (HookFiles \cup ScriptFiles) :
    /\ p \notin runLog.unbacked
    /\ \/ p \in runLog.copyFailed
       \/ \E b \in backups : b.ts = clock /\ b.path = p /\ b.data = pre[p].data

\* the second of two completed runs without --force, nothing in between
SecondRunDone == pc = "done" /\ prevRun.valid /\ ~force

\* C4 (as stated): on the second run every writeFileSafe call returns
\* skipped, .gitignore is not appended to, and the files and their contents
\* are those the first run left.
C4_SecondRunChangesNothing ==
  SecondRunDone =>
    /\ runLog.allSkipped /\ ~runLog.extWrote
    /\ ~runLog.giWrote
    /\ fs = prevRun.end
    /\ backups = prevRun.backups
    /\ extBackups = prevRun.extBackups
    /\ backupDirs = prevRun.backupDirs

\* C4 (amended): on the second run every writeFileSafe call for a project
\* artifact returns skipped, .gitignore is not appended to, and the files
\* and their contents are those the first run left, except for
\* .mcp/context.xml (the snapshot subprocess may write it) and, when the
\* second run has --setup-mcp, the forced write of the external config and
\* the backup directory made for it.
C4_SecondRunKeepsArtifacts ==
  SecondRunDone =>
    /\ runLog.allSkipped
    /\ ~runLog.giWrote
    /\ \A p \in Paths \ {SnapshotPath} : fs[p] = prevRun.end[p]
    /\ fs[SnapshotPath] \in {prevRun.end[SnapshotPath], File(RepomixOutput)}
    /\ backups = prevRun.backups
    /\ ~setupMcp => /\ ~runLog.extWrote
                    /\ extBackups = prevRun.extBackups
                    /\ backupDirs = prevRun.backupDirs

C4_Witness ==
  /\ SecondRunDone /\ runLog.nCalls > 0 /\ runLog.allSkipped
  /\ fs[GitignorePath].kind = "file"

\* C5: no init step changes the content of an existing docs/ARCHITECTURE.md,
\* docs/CONVENTIONS.md or docs/adr/ADR_TEMPLATE.md, whatever the flags; the
\* only existing files --force lets a step overwrite are the git hooks and
\* the helper scripts.
C5_DocsNeverOverwritten ==
  [][ /\ \A p \in DocFiles : fs[p].kind = "file" => fs'[p] = fs[p]
      /\ \A p \in ArtifactFiles :
           (fs[p].kind = "file" /\ fs'[p] # fs[p]) =>
             (force /\ p \in HookFiles \cup ScriptFiles) ]_vars

C5_Witness ==
  /\ pc = "done" /\ force /\ setupMcp
  /\ \E p \in DocFiles : pre[p] = File(UserContent) /\ fs[p] = pre[p]
  /\ runLog.overwritten # {}

\* the merge rule of the specification, on trees
IsTree(v) == v.t = "object"
RECURSIVE MergeRule(_, _)
MergeRule(existing, patch) ==
  Obj([k \in DOMAIN existing.kv \cup DOMAIN patch.kv |->
         IF k \notin DOMAIN patch.kv THEN existing.kv[k]
         ELSE IF k \in DOMAIN existing.kv /\ IsTree(existing.kv[k])
                 /\ IsTree(patch.kv[k])
              THEN MergeRule(existing.kv[k], patch.kv[k])
              ELSE patch.kv[k]])

\* C6: deepMerge(existing, patch) is the tree the merge rule defines: two
\* non-list trees at a key are merged recursively, in every other case the
\* patch value replaces the existing one, keys only in existing are kept.
C6_DeepMergeIsMergeRule ==
  (pc = "merged" /\ IsTree(mObj)) => mOut = MergeRule(mObj, mPatch)

\* C7: where the patch holds a list at a key (of the tree or of a tree merged
\* recursively), the result holds exactly that list at that key.
C7_PatchListReplaces ==
  pc = "merged" =>
    \A k \in DOMAIN mPatch.kv :
      LET v == mPatch.kv[k] IN
      /\ v.t = "array" => GetKey(mOut, k) = v
      /\ v.t = "object" =>
           \A k2 \in DOMAIN v.kv :
             v.kv[k2].t = "array" => GetKey(GetKey(mOut, k), k2) = v.kv[k2]

C7_Witness ==
  /\ pc = "merged"
  /\ \E k \in DOMAIN mPatch.kv :
       /\ mPatch.kv[k].t = "array" /\ GetKey(mObj, k).t = "array"
       /\ GetKey(mObj, k) # mPatch.kv[k]
       /\ GetKey(mOut, k) = mPatch.kv[k]

\* C8: detectProjectType returns 'existing' exactly when .git exists, one of
\* src, lib, app, backend, packages, services, docs exists and
\* docs/ARCHITECTURE.md does not; otherwise 'new'.  It changes nothing.
C8_Classification ==
  pc = "probed" =>
    /\ projectType \in {"new", "existing"}
    /\ projectType = "existing" <=>
         /\ fs[".git"].kind # "absent"
         /\ \E d \in CodeDirs \cup {"docs"} : fs[d].kind # "absent"
         /\ fs[ArchPath].kind = "absent"
    /\ fs = pre

C8_Witness ==
  /\ pc = "probed" /\ projectType = "existing"
  /\ \A d \in CodeDirs : fs[d].kind = "absent"

\* C9: the classification a run uses is the NEW/EXISTING rule applied to
\* the directory as it was when the command was invoked.
C9_ClassificationOfInvocationState ==
  (InRun /\ projectType # "unset") => projectType = detectProjectType(pre)

\* occurrences of the generated section in a text
CountSection(c) ==
  Cardinality({i \in 1..Len(c) :
                 /\ i + Len(mcpSection) - 1 <= Len(c)
                 /\ SubSeq(c, i, i + Len(mcpSection) - 1) = mcpSection})

GitignoreText(f) == safeRead(f, GitignorePath)

\* C10 (as stated): after two or more consecutive ensureGitignore calls
\* .gitignore holds the generated section exactly once, and a call that
\* finds the marker writes nothing.
C10_SectionExactlyOnce ==
  (pc = "gitignore" /\ giCalls >= 2) =>
    /\ CountSection(GitignoreText(fs)) = 1
    /\ includesMarker(GitignoreText(pre)) => fs = pre

\* C10 (amended): a call that finds the marker writes nothing; after two or
\* more consecutive calls .gitignore holds the generated section exactly
\* once when the file did not hold the marker before the first call, and is
\* the unchanged original file when it did.
C10_SectionAtMostOnce ==
  (pc = "gitignore" /\ giCalls >= 2) =>
    /\ includesMarker(GitignoreText(pre)) => fs = pre
    /\ IF includesMarker(GitignoreText(prevRun.end))
       THEN fs = prevRun.end
       ELSE /\ CountSection(GitignoreText(fs)) = 1
            /\ GitignoreText(fs) = Appended(GitignoreText(prevRun.end))

C10_Witness ==
  /\ pc = "gitignore" /\ giCalls >= 2
  /\ GitignoreText(prevRun.end) # <<>>
  /\ ~includesMarker(GitignoreText(prevRun.end))
  /\ CountSection(GitignoreText(fs)) = 1

(***************************************************************************)
(* Properties of setupMcpForClaudeDesktop (SpecConfig)                     *)
(***************************************************************************)
\* the value of the config file as written (what JSON.parse would read back)
Written == ext[CfgPath].data[1].val
BeforeIsJson == cfgLog.before # <<>> /\ cfgLog.before[1].raw = "json"
BeforeValue == cfgLog.before[1].val
PatchServers == mcpPatch.kv["mcpServers"].kv

\* v holds every member of the patch entry p with the value the patch gives
HoldsEntry(v, p) ==
  v.t = "object" /\ \A k \in DOMAIN p.kv : k \in DOMAIN v.kv /\ v.kv[k] = p.kv[k]

\* C11: after setupMcpForClaudeDesktop (overwriteExistingServers = true) on a
\* config file holding any valid JSON value, the written file is a JSON
\* object whose mcpServers holds the repomix and serena entries of the patch,
\* and every existing key the patch does not name keeps its original value.
C11_WrittenConfigHoldsPatchAndKeepsRest ==
  (cfgLog.called /\ cfgOpt /\ BeforeIsJson) =>
    /\ Written.t = "object"
    /\ "mcpServers" \in DOMAIN Written.kv
    /\ Written.kv["mcpServers"].t = "object"
    /\ \A k \in DOMAIN PatchServers :
         /\ k \in DOMAIN Written.kv["mcpServers"].kv
         /\ HoldsEntry(Written.kv["mcpServers"].kv[k], PatchServers[k])
    /\ \A k \in DOMAIN BeforeValue.kv \ {"mcpServers"} :
         k \in DOMAIN Written.kv /\ Written.kv[k] = BeforeValue.kv[k]
    /\ ("mcpServers" \in DOMAIN BeforeValue.kv) =>
         \A k \in DOMAIN BeforeValue.kv["mcpServers"].kv \ DOMAIN PatchServers :
           /\ k \in DOMAIN Written.kv["mcpServers"].kv
           /\ Written.kv["mcpServers"].kv[k] = BeforeValue.kv["mcpServers"].kv[k]

\* the existing config is an object whose mcpServers is an object with key k
ExistingServerKey(k) ==
  /\ BeforeIsJson
  /\ BeforeValue.t = "object"
  /\ "mcpServers" \in DOMAIN BeforeValue.kv
  /\ BeforeValue.kv["mcpServers"].t = "object"
  /\ k \in DOMAIN BeforeValue.kv["mcpServers"].kv
ExistingServer(k) == BeforeValue.kv["mcpServers"].kv[k]
WrittenKeeps(k) ==
  /\ k \notin DOMAIN cfgLog.patch.kv["mcpServers"].kv
  /\ Written.t = "object"
  /\ "mcpServers" \in DOMAIN Written.kv
  /\ k \in DOMAIN Written.kv["mcpServers"].kv
  /\ Written.kv["mcpServers"].kv[k] = ExistingServer(k)

\* C12 (as stated): with overwriteExistingServers = false, each patch key that
\* already exists as a key of the existing mcpServers is dropped from the
\* patch and the written config keeps the existing value for it.
C12_ExistingServerKeysWin ==
  (cfgLog.called /\ ~cfgOpt) =>
    \A k \in DOMAIN PatchServers : ExistingServerKey(k) => WrittenKeeps(k)

\* C12 (amended): with overwriteExistingServers = false, each patch key whose
\* existing mcpServers value is truthy is dropped from the patch and the
\* written config keeps that value; a key holding a falsy value (null) is
\* not dropped and is replaced by the patch entry.
C12_TruthyExistingServersWin ==
  (cfgLog.called /\ ~cfgOpt) =>
    \A k \in DOMAIN PatchServers :
      ExistingServerKey(k) =>
        IF Falsy(ExistingServer(k))
        THEN /\ k \in DOMAIN cfgLog.patch.kv["mcpServers"].kv
             /\ Written.kv["mcpServers"].kv[k] = PatchServers[k]
        ELSE WrittenKeeps(k)

C12_Witness ==
  /\ cfgLog.called /\ ~cfgOpt
  /\ ExistingServerKey("repomix")
  /\ ExistingServer("repomix").t = "object"
  /\ WrittenKeeps("repomix")
  /\ "serena" \in DOMAIN Written.kv["mcpServers"].kv

BadFileCopied ==
  \E c \in extBackups : c.path = CfgPath /\ c.data = BadText

PreWriteCopyExists ==
  \E c \in extBackups : c.path = CfgPath /\ c.data = cfgLog.before

\* C14 (as stated): whenever setupMcpForClaudeDesktop overwrites a config file
\* that already existed, a backup copy holding the pre-write content exists.
C14_BackupBeforeConfigOverwrite ==
  (cfgLog.called /\ cfgLog.existed /\ cfgLog.wrote) => PreWriteCopyExists

\* C14 (amended): whenever setupMcpForClaudeDesktop overwrites a config file
\* that already existed, createBackup has copied the pre-write content into
\* the backup directory before the write, unless the copy failed (the
\* failure is logged and the write still happens).
C14_BackupBeforeConfigOverwriteUnlessCopyFails ==
  (cfgLog.called /\ cfgLog.existed /\ cfgLog.wrote) =>
    /\ cfgLog.failing2 = {} => PreWriteCopyExists
    /\ \A c \in extBackups : c.path = CfgPath => c.data = cfgLog.before

C14_Witness ==
  /\ cfgLog.called /\ cfgLog.existed /\ cfgLog.wrote
  /\ BeforeIsJson
  /\ PreWriteCopyExists
  /\ ext[CfgPath].data # cfgLog.before

(***************************************************************************)
(* Properties of the command line (SpecCli)                                *)
(***************************************************************************)
IsHelp(a) == Len(a) > 0 /\ a[1] \in {"--help", "-h", "help"}
ExternalTouched ==
  \/ ext' # ext
  \/ extBackups' # extBackups
  \/ cfgLog'.called /\ ~cfgLog.called

\* C15: an init run without --setup-mcp, and every check run, never reads,
\* creates or writes the external config file or its directory: only the
\* setupMcp step of an init run given --setup-mcp touches it.
C15_ExternalConfigOnlyWithSetupMcp ==
  [][ExternalTouched =>
       /\ pc = "setupMcp"
       /\ Len(args) = 0 \/ args[1] \in {"", "init"}
       /\ \E i \in DOMAIN args : args[i] = "--setup-mcp"]_vars

C15_Witness ==
  /\ pc = "done"
  /\ args = <<"init", "--force">>
  /\ ~existsSync(ext, CfgDir)
  /\ ~cfgLog.called
  /\ existsSync(fs, ".cursorrules")

UsageHarmless ==
  (pc' = "exited") =>
    /\ fs' = fs /\ ext' = ext
    /\ backups' = backups /\ extBackups' = extBackups /\ backupDirs' = backupDirs
    /\ spawned' = {}

\* C16 (as stated): main dispatches on the first argument only: absent or
\* 'init' runs init, 'check' runs the health check, '--help', '-h', 'help'
\* print usage and exit 0, any other first token prints usage and exits 1;
\* on both usage paths nothing is written and no subprocess is run.
C16_DispatchOnFirstArgument ==
  [][(clock' # clock) =>
       /\ (Len(args') = 0 \/ args'[1] = "init") <=> pc' = "ensureGitRepo"
       /\ (Len(args') > 0 /\ args'[1] = "check") <=> pc' = "healthCheck"
       /\ IsHelp(args') <=> (pc' = "exited" /\ exitCode' = 0)
       /\ (Len(args') > 0 /\ ~IsHelp(args') /\ args'[1] \notin {"init", "check"})
            <=> (pc' = "exited" /\ exitCode' = 1)
       /\ UsageHarmless]_vars

\* C16 (amended): as stated, except that an empty first argument ('') counts
\* as absent and runs init.
C16_DispatchOnFirstArgumentEmptyIsInit ==
  [][(clock' # clock) =>
       /\ (Len(args') = 0 \/ args'[1] \in {"", "init"}) <=> pc' = "ensureGitRepo"
       /\ (Len(args') > 0 /\ args'[1] = "check") <=> pc' = "healthCheck"
       /\ IsHelp(args') <=> (pc' = "exited" /\ exitCode' = 0)
       /\ (Len(args') > 0 /\ ~IsHelp(args') /\ args'[1] \notin {"", "init", "check"})
            <=> (pc' = "exited" /\ exitCode' = 1)
       /\ UsageHarmless]_vars

C16_Witness ==
  /\ args = <<"--force", "init">>
  /\ pc = "exited" /\ exitCode = 1
  /\ spawned = {}
  /\ fs \in CliTrees

CheckRan == Len(args) > 0 /\ args[1] = "check" /\ pc \in {"exited", "crashed"}

\* C17: the check command exits with status 0 in every case; a missing file,
\* an unreadable .gitignore, a missing command or a failing snapshot
\* subprocess never makes the process crash or exit non-zero.
C17_CheckAlwaysExitsZero ==
  CheckRan => (pc = "exited" /\ exitCode = 0)

ToolsPresent == checks[1].ok /\ checks[2].ok /\ checks[3].ok

\* check ran right after an init run that completed (the user may have
\* deleted one expected file in between), with git, node and npx present
\* and the snapshot in place
CheckAfterInit ==
  /\ CheckRan /\ pc = "exited"
  /\ prevRun.valid
  /\ ToolsPresent
  /\ existsSync(pre, SnapshotPath)

\* C18: after a completed init with git, node, npx present and the snapshot
\* produced, check passes every entry (100%); after deleting exactly one
\* expected file, exactly the entry of that file fails, the pass count is
\* one lower and only that entry's hint is printed.
C18_CheckReportsExactlyTheDeletedFile ==
  CheckAfterInit =>
    IF deleted = "none"
    THEN /\ Passed(checks) = Len(checks)
         /\ Pct(checks) = 100
         /\ PrintedHints(checks) = {}
    ELSE /\ FailedNames(checks) = {deleted}
         /\ Passed(checks) = Len(checks) - 1
         /\ Pct(checks) < 100
         /\ PrintedHints(checks) = {"Run: node bootstrap.js init"}

C18_Witness ==
  /\ CheckAfterInit
  /\ deleted = "repomix.config.json"
  /\ FailedNames(checks) = {deleted}
  /\ Len(checks) = 17

(***************************************************************************)
(* Properties of the commit-msg hook (SpecHook)                            *)
(***************************************************************************)
PolicyTypes ==
  {<<"f", "e", "a", "t">>, <<"f", "i", "x">>, <<"r", "e", "f", "a", "c", "t", "o", "r">>,
   <<"d", "o", "c", "s">>, <<"t", "e", "s", "t">>, <<"c", "h", "o", "r", "e">>}
PolicyScopeAlphabet ==
  {"a", "b", "c", "d", "e", "f", "g", "h", "i", "j", "k", "l", "m", "n", "o", "p", "q", "r", "s", "t", "u", "v", "w", "x", "y", "z"} \cup {"0", "1", "2", "3", "4", "5", "6", "7", "8", "9"} \cup {"_", "-"}

Parenthesised(sc) == Len(sc) >= 3 /\ sc[1] = "(" /\ sc[Len(sc)] = ")"
\* word(scope): text, with any scope between the parentheses
OfScopedForm(sub, words) ==
  /\ sub.head \in words
  /\ Parenthesised(sub.scope)
  /\ sub.sep = <<":", " ">>
  /\ sub.text # <<>>
BeginsMergeOrRevert(sub) ==
  /\ sub.head \in {<<"M", "e", "r", "g", "e">>, <<"R", "e", "v", "e", "r", "t">>}
  /\ sub.scope = <<>>
  /\ sub.sep = <<" ">>
\* what the hook lets through: the scope part may be missing, a scope
\* consists of lower-case letters, digits, _ and -
Allowed(sub) ==
  \/ BeginsMergeOrRevert(sub)
  \/ /\ sub.head \in PolicyTypes \cup {<<"c", "h", "e", "c", "k", "p", "o", "i", "n", "t">>}
     /\ \/ sub.scope = <<>>
        \/ /\ Parenthesised(sub.scope)
           /\ \A i \in 2..(Len(sub.scope) - 1) : sub.scope[i] \in PolicyScopeAlphabet
     /\ sub.sep = <<":", " ">>
     /\ sub.text # <<>>

C20_PolicySubjectsAccepted ==
  (pc \in {"committed", "blocked"}
     /\ \/ OfScopedForm(subject, PolicyTypes)
        \/ OfScopedForm(subject, {<<"c", "h", "e", "c", "k", "p", "o", "i", "n", "t">>})
        \/ BeginsMergeOrRevert(subject)) => hookExit = 0

\* C20 (amended): the hook exits 0 for every subject type(scope): text or
\* type: text with type in {feat, fix, refactor, docs, test, chore} or
\* checkpoint, where the scope is a non-empty string over [a-z0-9_-] and
\* the text is non-empty, and for every subject beginning with 'Merge ' or
\* 'Revert '.
C20_SubjectsWithinPolicyAccepted ==
  (pc \in {"committed", "blocked"} /\ Allowed(subject)) => hookExit = 0 /\ pc = "committed"

C20_Witness ==
  /\ pc = "committed" /\ hookExit = 0
  /\ subject.head = <<"f", "e", "a", "t">> /\ subject.scope = <<"(", "a", "u", "t", "h", ")">>
  /\ subject.sep = <<":", " ">>
  /\ subject.text = <<"a", "d", "d", " ", "t", "o", "k", "e", "n", " ", "c", "h", "e", "c", "k">>

\* C21: the CI workflow mirrors the local hook: for every commit subject the
\* commit-policy workflow flags the subject (the step fails) exactly when
\* the commit-msg hook rejects it.
C21_WorkflowMirrorsHook ==
  (pc = "pushed") => ((workflowExit # 0) <=> (hookExit # 0))

\* C22: createBackup skips the paths that do not exist, goes on after a copy
\* that fails, and returns the backup directory name exactly when at least
\* one path was copied (null otherwise, also when no listed path existed).
BkListed == {bkLog.paths[i] : i \in DOMAIN bkLog.paths}
BkExisting == {p \in BkListed : existsSync(fs, p)}
BkCopied == {c.path : c \in {b \in backups : b.ts = clock}}
HookBackupFailed == runLog.copyFailed # {}
CfgBackupFailed ==
  cfgLog.called /\ cfgLog.existed /\ (cfgLog.failing1 \cup cfgLog.failing2) # {}
BothRan == pc = "twin" /\ projectType # "unset" /\ twin.done
WroteBoth(p) == WrittenBy(calls)[p] # <<>> /\ twin.written[p] # <<>>
C24_ContentDependsOnlyOnClassification ==
  (BothRan /\ projectType = twin.type) =>
    \A p \in ArtifactFiles :
      WroteBoth(p) => WrittenBy(calls)[p] = twin.written[p]

\* C24 (amended): two runs with the same classification write the same
\* content for every artifact both create, except docs/ARCHITECTURE.md of
\* EXISTING runs, whose content also holds the modules and the tech stack
\* detected in the directory: it is the same when these are the same.
SameDetection ==
  /\ detectModules(fs) = detectModules(twin.fs)
  /\ detectTechStack(fs) = detectTechStack(twin.fs)
C24_ContentDependsOnClassificationAndDetection ==
  (BothRan /\ projectType = twin.type) =>
    \A p \in ArtifactFiles :
      (WroteBoth(p) /\ (p # ArchPath \/ projectType = "new" \/ SameDetection))
        => WrittenBy(calls)[p] = twin.written[p]

C24_Witness ==
  /\ BothRan
  /\ projectType = "new" /\ twin.type = "new"
  /\ WroteBoth(ArchPath)
  /\ detectTechStack(fs) # detectTechStack(twin.fs)
  /\ WrittenBy(calls)[ArchPath] = twin.written[ArchPath]

\* C25: when an init run without --force is terminated after any of its
\* steps and init is run again to completion with no other change to the
\* directory, the artifacts have the content a single uninterrupted run
\* from the original directory would have produced.
ResumedRunDone ==
  /\ pc = "done" /\ ~force
  /\ origin.valid /\ ~origin.force /\ clock = origin.run + 1
C25_InterruptedRunDoesNoHarm ==
  ResumedRunDone =>
    \A p \in ArtifactFiles \cup {GitignorePath} :
      fs[p] = initRun(origin.fs, FALSE).fs[p]

\* the entries of the generated-artifacts section
SectionEntries == {".mcp/context.xml", ".mcp/context_incremental.txt",
                   ".mcp/post-commit.log", ".ai-dev-backup-*/", ".env"}

\* the text c has a line that is the entry e
ListsEntry(c, e) ==
  \E i \in DOMAIN c :
    /\ c[i] = e
    /\ i = 1 \/ c[i - 1] = "\n"
    /\ i = Len(c) \/ c[i + 1] = "\n"

\* C26 (as stated): after ensureGitignore returns, .gitignore lists every
\* entry of the generated-artifacts section, whatever the file held before
\* (absent, empty or user-written).
C26_EveryEntryListed ==
  (pc = "gitignore" /\ giCalls >= 1) =>
    \A e \in SectionEntries : ListsEntry(GitignoreText(fs), e)

\* C26 (amended): after ensureGitignore returns, .gitignore lists every
\* entry of the section when the file was absent, empty or user-written
\* without the text '.mcp/context.xml'; a file that held that text anywhere
\* is left as it was.
C26_EveryEntryListedUnlessMarkerPresent ==
  (pc = "gitignore" /\ giCalls >= 1) =>
    IF includesMarker(GitignoreText(prevRun.end))
    THEN fs = prevRun.end
    ELSE \A e \in SectionEntries : ListsEntry(GitignoreText(fs), e)

C26_Witness ==
  /\ pc = "gitignore" /\ giCalls = 1
  /\ GitignoreText(prevRun.end) = <<"node_modules/", "\n">>
  /\ ListsEntry(GitignoreText(fs), "node_modules/")
  /\ \A e \in SectionEntries : ListsEntry(GitignoreText(fs), e)

\* the text c holds the lines of sub, in a row
ContainsLines(c, sub) ==
  \E i \in 0..(Len(c) - Len(sub)) : SubSeq(c, i + 1, i + Len(sub)) = sub

\* C27: a docs/ARCHITECTURE.md written by init holds the DEGRADED MODE
\* TEMPLATE block and the detected module and tech-stack lists exactly when
\* the run classified the project as EXISTING, and detecting them never
\* makes the run fail (createDocs always hands over to the next step).
ArchWritten ==
  /\ pc = "createCursorRules"
  /\ calls[1].filePath = ArchPath /\ calls[1].wrote
C27_DegradedTemplateIffExisting ==
  /\ ArchWritten =>
       LET c == calls[1].content IN
         /\ fs[ArchPath] = File(c)
         /\ ContainsLines(c, <<"> DEGRADED MODE TEMPLATE">>)
              <=> projectType = "existing"
         /\ ContainsLines(c, detectModules(fs)) <=> projectType = "existing"
         /\ ContainsLines(c, detectTechStack(fs)) <=> projectType = "existing"
  /\ (pc = "crashed") => projectType = "unset"

\* an EXISTING run in which listing src fails: the sentinel line is written
C27_Witness ==
  /\ ArchWritten
  /\ projectType = "existing"
  /\ fs["src"].kind = "file"
  /\ ContainsLines(calls[1].content, <<"> DEGRADED MODE TEMPLATE">>)
  /\ ContainsLines(calls[1].content, <<"- Unable to detect modules">>)

\* C28: scripts/create-adr.sh <slug> creates an ADR file whose three-digit
\* ID is one more than the highest ID among the existing
\* docs/adr/ADR-NNN-*.md files (001 when there is none), so that no two ADR
\* files share an ID and no existing ADR is overwritten.
HighestBefore ==
  IF AdrGlob(adrLog.before) = {} THEN 0
  ELSE CHOOSE n \in {f.n : f \in AdrGlob(adrLog.before)} :
         \A f \in AdrGlob(adrLog.before) : f.n <= n
C28_NextAdrId ==
  (pc = "adr" /\ adrLog.called) =>
    /\ adrLog.created
    /\ adrLog.file = HighestBefore + 1
    /\ adrLog.before \subseteq adrFiles
    /\ \A f \in adrFiles : \A g \in adrFiles : f.n = g.n => f = g

\* C29: healthCheck reports 100% and 'System looks ready' exactly when
\* every entry passed; with the fixed number of entries a single failed
\* entry gives a rounded percentage below 100 and 'Fix the red items'.
AllPassed == \A i \in DOMAIN checks : checks[i].ok
C29_ReadyIffAllPassed ==
  (Len(checks) > 0) =>
    /\ Len(checks) = 17
    /\ (Pct(checks) = 100) <=> AllPassed
    /\ (summaryLine(checks)
          = "System looks ready. You can switch tools and rely on repo snapshots + commit history.")
         <=> AllPassed
    /\ (Passed(checks) = Len(checks) - 1) =>
         /\ Pct(checks) < 100
         /\ summaryLine(checks)
              = "Fix the red items above, then re-run: node bootstrap.js check"

C29_Witness ==
  /\ pc = "exited"
  /\ Len(checks) = 17 /\ Passed(checks) = 16
  /\ Pct(checks) = 94
  /\ summaryLine(checks)
       = "Fix the red items above, then re-run: node bootstrap.js check"

\* C30: setting up the external config twice gives the content that setting
\* it up once gives: deepMerge(deepMerge(e, p), p) = deepMerge(e, p), so a
\* second init --setup-mcp rewrites the config file with unchanged content.
SecondSetup == pc = "configured" /\ clock >= 2 /\ cfgOpt
C30_SecondSetupLeavesContent ==
  /\ (cfgLog.called /\ cfgOpt) =>
       deepMerge(cfgLog.merged, cfgLog.patch) = cfgLog.merged
  /\ SecondSetup =>
       /\ cfgLog.wrote
       /\ safeRead(ext, CfgPath) = cfgLog.before

C30_Witness ==
  /\ SecondSetup
  /\ "theme" \in DOMAIN Written.kv
  /\ "other" \in DOMAIN Written.kv["mcpServers"].kv
  /\ HoldsEntry(Written.kv["mcpServers"], mcpPatch.kv["mcpServers"])
  /\ safeRead(ext, CfgPath) = cfgLog.before

====
